---- MODULE Spec2Model ----
(***************************************************************************)
(* State-machine model of the DSL pipeline library:                        *)
(*   - TilerBintr's show-source override (src/src/DslTilerBintr.cpp)       *)
(*   - PlayerBintr's Play/Pause/Stop marshaling (src/src/DslPlayerBintr.cpp)*)
(*   - the setters of a container node (src/src/DslBintr.h)                *)
(*   - the Source Aggregator (src/src/DslPipelineSourcesBintr.h)           *)
(*   - the pipeline services (src/src/DslServicesPipeline.cpp)             *)
(* The GLib main loop, the GStreamer state manager and the source registry *)
(* are the environment: the loop is a set of registered timeout sources    *)
(* and a FIFO of one-shot callbacks.                                       *)
(***************************************************************************)
EXTENDS Integers, Sequences, FiniteSets, TLC

\* ------------------------------------------------------------------ bounds
MaxBatchSize == 2       \* the batch size given to the Tiler
MaxTimeout == 1         \* largest timeout (seconds) an API caller passes
MaxTimers == 2          \* timeout sources the loop can hold at once
MaxWrapTicks == 1       \* ticks explored after the counter has wrapped
MaxListeners == 2       \* show-source listeners a client registers
MaxTermListeners == 2   \* termination listeners a client registers
MaxCallbacks == 2       \* one-shot callbacks the loop holds at once
MaxInvoked == 2         \* listener invocations counted (2 = more than once)
MaxGpuId == 1           \* largest GPU id a caller passes
MaxNvbufMemType == 1    \* largest buffer memory type a caller passes
MaxSources == 4         \* sources offered to the aggregator
MaxRequestPadIds == 3   \* capacity of the aggregator's slot pool
MaxSourceAdds == 4      \* successful AddChild calls counted
MaxPipelines == 2       \* pipeline names the callers use
MaxThreads == 2         \* threads that call the services
MaxCycleBatch == 3      \* the batch size of the Tiler that cycles past gaps

\* ------------------------------------------------------- program constants
TicksPerSecond == 10    \* m_showSourceCounter = timeout*10, 100 ms period
Int32Max == 2147483647  \* 2^31 - 1: a uint (32 bits) v >= 2^31 is held as
                        \* v - 2^32, its two's-complement reading
AudiomixVolumeMin == 0  \* if (volume < 0.0 or volume > 10.0)
AudiomixVolumeMax == 10
DefaultVolume == 1      \* the volume of a mixer port nothing was set on

\* ================================================================= Tiler
VARIABLES
    m_isLinked,             \* Bintr::m_isLinked of the Tiler
    queueLinkedToTiler,     \* m_pQueue is linked to m_pTiler
    m_batchSize,            \* Bintr::m_batchSize of the Tiler
    activeSources,          \* stream ids Services::_sourceNameGet knows
    m_showStreamId,         \* int, -1 = all sources
    m_showSourceTimeout,    \* uint, seconds
    m_showSourceCounter,    \* uint, remaining ticks
    m_showSourceTimerId,    \* guint, 0 = no timer
    m_showSourceCycle,      \* bool
    m_notifyClientsTimerId, \* guint, 0 = no notification pending
    m_showSourceListeners,  \* registered listener callbacks
    showSourceTimers,       \* ids of the ShowSourceTimerHandler sources
                            \* registered with the main loop
    lastCall,               \* history: the Tiler operation that ran last
    cycleTicks              \* history: linked ticks since CycleAllSources,
                            \* -1 once any other API call was made

tilerVars == <<m_isLinked, queueLinkedToTiler,
               m_batchSize, activeSources, m_showStreamId,
               m_showSourceTimeout, m_showSourceCounter, m_showSourceTimerId,
               m_showSourceCycle, m_notifyClientsTimerId,
               m_showSourceListeners, showSourceTimers, lastCall, cycleTicks>>

\* The clients of the Tiler: the thread that calls GetShowSource and the
\* show-source listeners.
VARIABLES
    getPc,                  \* where the thread calling GetShowSource is
    getStreamId,            \* *streamId, written by line 245
    getTimeout,             \* *timeout, written by line 246
    getSeen,                \* history: the (m_showStreamId,
                            \* m_showSourceTimeout) pairs the Tiler held
                            \* while the query ran
    sweep,                  \* history: the listener calls made by the
                            \* operation that ran last
    notifyIt                \* the loop of HandleNotifiyClients when it is
                            \* followed call by call: where the loop thread
                            \* is, and the listeners its iterator has yet
                            \* to visit

queryVars == <<getPc, getStreamId, getTimeout, getSeen>>
tilerClientVars == <<queryVars, sweep, notifyIt>>

\* The listener calls of an operation that is not the notification sweep.
NoSweep == [calls |-> <<>>, thrown |-> {}, streamId |-> -1, escaped |-> FALSE]

\* The loop thread outside HandleNotifiyClients.
NotIterating == [pc |-> "idle", left |-> {}]

\* The clients before their first call.
TilerClientInit ==
    /\ getPc = "idle"
    /\ getStreamId = -1
    /\ getTimeout = 0
    /\ getSeen = {}
    /\ sweep = NoSweep
    /\ notifyIt = NotIterating

\* The five show-source fields and the timer handle, as one tuple.
showSourceState == <<m_showStreamId, m_showSourceTimeout, m_showSourceCounter,
                     m_showSourceCycle, m_showSourceTimerId>>

\* The record of the operation that ran last: its name, the branch of the
\* code it took and what it returned.
Call(op, path, ret) == [op |-> op, path |-> path, ret |-> ret]

NoCall == Call("none", "", TRUE)

\* uint arithmetic
UintWrap(v) ==
    IF v > Int32Max THEN v - Int32Max - Int32Max - 2
    ELSE IF v < -Int32Max - 1 THEN v + Int32Max + Int32Max + 2
    ELSE v
UintMul(a, b) == UintWrap(a * b)
UintDec(a) == IF a = -Int32Max - 1 THEN Int32Max ELSE a - 1  \* 0 - 1 = 2^32 - 1

\* g_timeout_add: the id of the new source.  Ids are opaque; the lowest id
\* not registered stands for "a fresh id".
FreeTimerIds(registered) == (1..MaxTimers) \ registered
NewTimerId(registered) ==
    CHOOSE id \in FreeTimerIds(registered) :
        \A other \in FreeTimerIds(registered) : id <= other
CanAddTimer(registered) == FreeTimerIds(registered) # {}

\* m_showSourceTimerId = g_timeout_add(100, ShowSourceTimerHandler, this)
\* with `registered` the sources the loop holds when the call is made
AddShowSourceTimer(registered) ==
    /\ CanAddTimer(registered)
    /\ m_showSourceTimerId' = NewTimerId(registered)
    /\ showSourceTimers' = registered \cup {NewTimerId(registered)}

\* Services::_sourceNameGet(sourceId) == DSL_RESULT_SUCCESS
IsActiveSource(streamId) == streamId \in activeSources

\* bool TilerBintr::SetShowSource(int streamId): the return value
SetShowSource1Ret(streamId) == streamId = -1 \/ IsActiveSource(streamId)

\* NotificationDue with no notification ever scheduled
NotificationDue_Never == FALSE

\* line 417: if (m_showSourceListeners.size() and !m_notifyClientsTimerId)
NotificationDue == m_showSourceListeners # {} /\ m_notifyClientsTimerId = 0

\* bool TilerBintr::SetShowSource(int streamId): the effect
SetShowSource1(streamId) ==
    IF ~SetShowSource1Ret(streamId)
    THEN UNCHANGED <<m_showStreamId, m_notifyClientsTimerId>>
    ELSE /\ m_showStreamId' = streamId
         /\ m_notifyClientsTimerId' =
              IF NotificationDue THEN 1 ELSE m_notifyClientsTimerId

\* RejectsWithoutPrecedence with hasPrecedence ignored
RejectsWithoutPrecedence_Always(hasPrecedence) ==
    m_showSourceTimerId # 0

\* line 264: a running timer blocks a call without precedence
RejectsWithoutPrecedence(hasPrecedence) ==
    m_showSourceTimerId # 0 /\ ~hasPrecedence

\* The Tiler as its constructor leaves it, batch size and sources aside.
TilerConstructed ==
    /\ TilerClientInit
    /\ m_isLinked = FALSE
    /\ queueLinkedToTiler = FALSE
    /\ m_showStreamId = -1
    /\ m_showSourceTimeout = 0
    /\ m_showSourceCounter = 0
    /\ m_showSourceTimerId = 0
    /\ m_showSourceCycle = FALSE
    /\ m_notifyClientsTimerId = 0
    /\ m_showSourceListeners \in {{}, 1..MaxListeners}
    /\ showSourceTimers = {}
    /\ lastCall = NoCall
    /\ cycleTicks = -1

\* The Tiler of a pipeline that has set its batch size, with sources in
\* some of the slots of the batch.
TilerInit ==
    /\ TilerConstructed
    /\ m_batchSize = MaxBatchSize
    /\ activeSources \in SUBSET (0..(m_batchSize - 1))

\* --------------------------------------------------------------- API calls

\* lines 272-286: a different source, accepted
ShowOtherSource(streamId, timeout, hasPrecedence) ==
    /\ m_showSourceCycle' = FALSE
    /\ m_showSourceTimeout' = timeout
    /\ IF ~SetShowSource1Ret(streamId)
       THEN /\ UNCHANGED <<m_showStreamId, m_notifyClientsTimerId,
                           m_showSourceCounter, m_showSourceTimerId,
                           showSourceTimers>>
            /\ lastCall' = Call("SetShowSource", "inactive", FALSE)
       ELSE /\ SetShowSource1(streamId)
            /\ m_showSourceCounter' = UintMul(timeout, TicksPerSecond)
            /\ IF m_showSourceCounter' # 0
               THEN AddShowSourceTimer(showSourceTimers)
               ELSE UNCHANGED <<m_showSourceTimerId, showSourceTimers>>
            /\ lastCall' = Call("SetShowSource",
                                IF m_showSourceTimerId # 0
                                THEN "override" ELSE "other", TRUE)

\* ShowSameSource handled as a change of source
ShowSameSource_AsOther(streamId, timeout, hasPrecedence) ==
    ShowOtherSource(streamId, timeout, hasPrecedence)

\* lines 289-298: the source already shown
ShowSameSource(streamId, timeout, hasPrecedence) ==
    /\ m_showSourceCycle' = FALSE
    /\ m_showSourceTimeout' = timeout
    /\ m_showSourceCounter' = UintMul(timeout, TicksPerSecond)
    /\ IF m_showSourceTimerId = 0 /\ m_showSourceCounter' # 0
       THEN AddShowSourceTimer(showSourceTimers)
       ELSE UNCHANGED <<m_showSourceTimerId, showSourceTimers>>
    /\ UNCHANGED <<m_showStreamId, m_notifyClientsTimerId>>
    /\ lastCall' = Call("SetShowSource", "same", TRUE)

\* bool TilerBintr::SetShowSource(int streamId, uint timeout, bool hasPrecedence)
SetShowSource(streamId, timeout, hasPrecedence) ==
    /\ IF streamId < 0
       THEN /\ UNCHANGED <<showSourceState, m_notifyClientsTimerId,
                           showSourceTimers>>
            /\ lastCall' = Call("SetShowSource", "invalid", FALSE)
       ELSE IF streamId # m_showStreamId
       THEN IF RejectsWithoutPrecedence(hasPrecedence)
            THEN /\ m_showSourceCycle' = FALSE
                 /\ UNCHANGED <<m_showStreamId, m_showSourceTimeout,
                                m_showSourceCounter, m_showSourceTimerId,
                                m_notifyClientsTimerId, showSourceTimers>>
                 /\ lastCall' = Call("SetShowSource", "rejected", FALSE)
            ELSE ShowOtherSource(streamId, timeout, hasPrecedence)
       ELSE ShowSameSource(streamId, timeout, hasPrecedence)
    /\ cycleTicks' = -1
    /\ UNCHANGED <<m_isLinked, queueLinkedToTiler,
                   m_batchSize, activeSources, m_showSourceListeners>>

\* IsInvalidCycleTimeout with the check left out
IsInvalidCycleTimeout_Never(timeout) == FALSE

\* line 306: the timeout CycleAllSources refuses
IsInvalidCycleTimeout(timeout) == timeout = 0

\* bool TilerBintr::CycleAllSources(uint timeout)
CycleAllSources(timeout) ==
    /\ IF IsInvalidCycleTimeout(timeout)
       THEN /\ UNCHANGED <<showSourceState, m_notifyClientsTimerId,
                           showSourceTimers>>
            /\ lastCall' = Call("CycleAllSources", "zero", FALSE)
            /\ cycleTicks' = -1
       ELSE /\ m_showSourceCycle' = TRUE
            /\ m_showSourceTimeout' = timeout
            /\ SetShowSource1(0)
            /\ m_showSourceCounter' = UintMul(timeout, TicksPerSecond)
            /\ IF m_showSourceCounter' # 0
               THEN AddShowSourceTimer(showSourceTimers \ {m_showSourceTimerId})
               ELSE /\ m_showSourceTimerId' = 0
                    /\ showSourceTimers' =
                         showSourceTimers \ {m_showSourceTimerId}
            /\ lastCall' = Call("CycleAllSources", "ok", TRUE)
            /\ cycleTicks' =
                 IF m_isLinked /\ activeSources = 0..(m_batchSize - 1)
                 THEN 0 ELSE -1
    /\ UNCHANGED <<m_isLinked, queueLinkedToTiler,
                   m_batchSize, activeSources, m_showSourceListeners>>

\* void TilerBintr::ShowAllSources()
ShowAllSources ==
    /\ IF m_showSourceTimerId # 0
       THEN /\ showSourceTimers' = showSourceTimers \ {m_showSourceTimerId}
            /\ m_showSourceTimerId' = 0
            /\ m_showSourceCycle' = FALSE
       ELSE UNCHANGED <<showSourceTimers, m_showSourceTimerId,
                        m_showSourceCycle>>
    /\ IF m_showStreamId # -1
       THEN SetShowSource1(-1)
       ELSE UNCHANGED <<m_showStreamId, m_notifyClientsTimerId>>
    /\ lastCall' = Call("ShowAllSources", "", TRUE)
    /\ cycleTicks' = -1
    /\ UNCHANGED <<m_isLinked, queueLinkedToTiler,
                   m_batchSize, activeSources,
                   m_showSourceTimeout, m_showSourceCounter,
                   m_showSourceListeners>>

\* GetShowSourceLocks with the mutex taken
GetShowSourceLocks_Always == TRUE

\* lines 241-247: GetShowSource has no LOCK_MUTEX_FOR_CURRENT_SCOPE
GetShowSourceLocks == FALSE

\* The query holds m_showSourceMutex.
QueryHoldsMutex == GetShowSourceLocks /\ getPc = "readStreamId"

\* The pair a locked reader would see now.
ShownPair == <<m_showStreamId, m_showSourceTimeout>>

\* void TilerBintr::GetShowSource(int*, uint*), line 245
GetShowSourceReadStreamId ==
    /\ getPc \in {"idle", "returned"}
    /\ getPc' = "readStreamId"
    /\ getStreamId' = m_showStreamId
    /\ getSeen' = {ShownPair}
    /\ UNCHANGED getTimeout

\* void TilerBintr::GetShowSource(int*, uint*), line 246 and the return
GetShowSourceReadTimeout ==
    /\ getPc = "readStreamId"
    /\ getPc' = "returned"
    /\ getTimeout' = m_showSourceTimeout
    /\ UNCHANGED <<getStreamId, getSeen>>

\* An operation of another thread that runs while the query does: the
\* pair it leaves is one the query may report.
RunsBesideQuery ==
    /\ ~QueryHoldsMutex
    /\ getSeen' = IF getPc = "readStreamId"
                  THEN getSeen \cup {ShownPair'} ELSE getSeen
    /\ UNCHANGED <<getPc, getStreamId, getTimeout>>

\* ----------------------------------------------------- main-loop callbacks

\* NextCycleStreamId without the wrap to slot 0
NextCycleStreamId_NoWrap == m_showStreamId + 1

\* line 372: the source shown after the current one while cycling
NextCycleStreamId == (m_showStreamId + 1) % m_batchSize

\* lines 368-379: what the expiry of the counter returns to the main loop
\* (TRUE keeps the timeout source, FALSE destroys it)
ExpiryKeepsTimer == m_showSourceCycle

\* The counter has a value the model follows a tick from.
TickInBounds ==
    \/ m_showSourceCounter >= 0
    \/ m_showSourceCounter > -MaxWrapTicks

\* TickSkipped with the test left out
TickSkipped_Never == FALSE

\* lines 358-363: a tick of a Tiler that is not linked does nothing
TickSkipped == ~m_isLinked

\* int TilerBintr::HandleShowSourceTimer(), called by the timeout source id
HandleShowSourceTimer(id) ==
    /\ id \in showSourceTimers
    /\ TickInBounds
    /\ IF TickSkipped
       THEN /\ UNCHANGED <<showSourceState, m_notifyClientsTimerId,
                           showSourceTimers, cycleTicks>>
            /\ lastCall' = Call("Tick", "unlinked", TRUE)
       ELSE IF UintDec(m_showSourceCounter) # 0
       THEN /\ m_showSourceCounter' = UintDec(m_showSourceCounter)
            /\ UNCHANGED <<m_showStreamId, m_showSourceTimeout,
                           m_showSourceCycle, m_showSourceTimerId,
                           m_notifyClientsTimerId, showSourceTimers>>
            /\ lastCall' = Call("Tick", "count", TRUE)
       ELSE IF ExpiryKeepsTimer
       THEN /\ m_showSourceCounter' =
                 UintMul(m_showSourceTimeout, TicksPerSecond)
            /\ SetShowSource1(NextCycleStreamId)
            /\ UNCHANGED <<m_showSourceTimeout, m_showSourceCycle,
                           m_showSourceTimerId, showSourceTimers>>
            /\ lastCall' = Call("Tick", "cycle", TRUE)
       ELSE /\ m_showSourceCounter' = 0
            /\ m_showSourceTimerId' = 0
            /\ SetShowSource1(-1)
            /\ showSourceTimers' = showSourceTimers \ {id}
            /\ UNCHANGED <<m_showSourceTimeout, m_showSourceCycle>>
            /\ lastCall' = Call("Tick", "expire", FALSE)
    /\ cycleTicks' =
         IF cycleTicks >= 0 /\ m_isLinked
         THEN (cycleTicks + 1)
                % (TicksPerSecond * m_showSourceTimeout * m_batchSize)
         ELSE cycleTicks
    /\ UNCHANGED <<m_isLinked, queueLinkedToTiler,
                   m_batchSize, activeSources, m_showSourceListeners>>

\* ExceptionEndsSweep with the try block around the loop
ExceptionEndsSweep_Always == TRUE

\* lines 436-445: try and catch(...) are inside the loop body, so the
\* exception of a listener does not leave the loop
ExceptionEndsSweep == FALSE

\* lines 434-446: the listeners called, in the order of the std::map, when
\* the listeners of `thrown` raise
RECURSIVE SweepCalls(_, _)
SweepCalls(listeners, thrown) ==
    IF listeners = {}
    THEN <<>>
    ELSE LET first == CHOOSE l \in listeners : \A o \in listeners : l <= o
         IN IF first \in thrown /\ ExceptionEndsSweep
            THEN <<first>>
            ELSE <<first>> \o SweepCalls(listeners \ {first}, thrown)

\* An exception leaves HandleNotifiyClients.
SweepEscapes(listeners, thrown) ==
    ExceptionEndsSweep /\ listeners \cap thrown # {}

\* int TilerBintr::HandleNotifiyClients(): the one-shot notification sweep,
\* in which the listeners of `thrown` raise
HandleNotifiyClients(thrown) ==
    /\ m_notifyClientsTimerId # 0
    /\ thrown \subseteq m_showSourceListeners
    /\ sweep' = [calls |-> SweepCalls(m_showSourceListeners, thrown),
                 thrown |-> thrown,
                 streamId |-> m_showStreamId,
                 escaped |-> SweepEscapes(m_showSourceListeners, thrown)]
    /\ m_notifyClientsTimerId' =
         IF SweepEscapes(m_showSourceListeners, thrown)
         THEN m_notifyClientsTimerId ELSE 0
    /\ lastCall' = Call("NotifyClients", "", FALSE)
    /\ UNCHANGED <<m_isLinked, queueLinkedToTiler,
                   m_batchSize, activeSources, showSourceState,
                   m_showSourceListeners, showSourceTimers, cycleTicks>>

\* HandleNotifiyClients followed call by call, for the threads that run
\* beside it.  Lines 428-434: the loop thread takes m_showSourceMutex and
\* sets its iterator to the first listener of the map.
NotifyClientsBegin ==
    /\ m_notifyClientsTimerId # 0
    /\ notifyIt.pc = "idle"
    /\ notifyIt' = [pc |-> "iterating", left |-> m_showSourceListeners]
    /\ UNCHANGED tilerVars

\* lines 434-446: the listener under the iterator is called and the
\* iterator moves on
NotifyClientsCallNext ==
    /\ notifyIt.pc = "iterating"
    /\ notifyIt.left # {}
    /\ LET first == CHOOSE l \in notifyIt.left :
                        \A o \in notifyIt.left : l <= o
       IN  notifyIt' = [notifyIt EXCEPT !.left = @ \ {first}]
    /\ UNCHANGED tilerVars

\* lines 447-449: past the last listener the marker is cleared and the
\* mutex released with the scope
NotifyClientsEnd ==
    /\ notifyIt.pc = "iterating"
    /\ notifyIt.left = {}
    /\ notifyIt' = NotIterating
    /\ m_notifyClientsTimerId' = 0
    /\ lastCall' = Call("NotifyClients", "", FALSE)
    /\ UNCHANGED <<m_isLinked, queueLinkedToTiler,
                   m_batchSize, activeSources, showSourceState,
                   m_showSourceListeners, showSourceTimers, cycleTicks>>

\* ListenerCallsLock with the mutex taken
ListenerCallsLock_Always == TRUE

\* lines 451-479: AddShowSourceListener and RemoveShowSourceListener have
\* no LOCK_MUTEX_FOR_CURRENT_SCOPE
ListenerCallsLock == FALSE

\* A call that changes the map of listeners beside the loop of
\* HandleNotifiyClients: it waits for the mutex if it takes it; if it does
\* not, the map changes under the iterator, which may go on to any of the
\* listeners the map held or holds.
RunsBesideSweep ==
    /\ ListenerCallsLock => notifyIt.pc = "idle"
    /\ IF notifyIt.pc = "iterating"
          /\ m_showSourceListeners' # m_showSourceListeners
       THEN \E left \in SUBSET (m_showSourceListeners
                                \cup m_showSourceListeners') :
                notifyIt' = [notifyIt EXCEPT !.left = left]
       ELSE UNCHANGED notifyIt

\* ------------------------------------------------- linking and listeners

\* bool Bintr::SetBatchSize(uint batchSize), which the Tiler inherits
SetBatchSize(batchSize) ==
    /\ m_batchSize' = batchSize
    /\ lastCall' = Call("SetBatchSize", "", TRUE)
    /\ cycleTicks' = -1
    /\ UNCHANGED <<m_isLinked, queueLinkedToTiler, activeSources,
                   showSourceState, m_notifyClientsTimerId,
                   m_showSourceListeners, showSourceTimers>>

\* LinkAllRefused with the check left out
LinkAllRefused_Never == FALSE

\* line 137: LinkAll() gives up when the Tiler is linked
LinkAllRefused == m_isLinked

\* bool TilerBintr::LinkAll()
TilerLinkAll ==
    /\ IF LinkAllRefused
       THEN /\ UNCHANGED <<m_isLinked, queueLinkedToTiler>>
            /\ lastCall' = Call("LinkAll", "linked", FALSE)
       ELSE /\ queueLinkedToTiler' = TRUE
            /\ m_isLinked' = TRUE
            /\ lastCall' = Call("LinkAll", "ok", TRUE)
    /\ cycleTicks' = -1
    /\ UNCHANGED <<m_batchSize, activeSources, showSourceState,
                   m_notifyClientsTimerId, m_showSourceListeners,
                   showSourceTimers>>

\* void TilerBintr::UnlinkAll()
TilerUnlinkAll ==
    /\ IF ~m_isLinked
       THEN UNCHANGED <<m_isLinked, queueLinkedToTiler>>
       ELSE /\ queueLinkedToTiler' = FALSE
            /\ m_isLinked' = FALSE
    /\ lastCall' = Call("UnlinkAll", "", m_isLinked)
    /\ cycleTicks' = -1
    /\ UNCHANGED <<m_batchSize, activeSources, showSourceState,
                   m_notifyClientsTimerId, m_showSourceListeners,
                   showSourceTimers>>

\* bool TilerBintr::AddShowSourceListener(listener, clientData)
AddShowSourceListener(listener) ==
    /\ IF listener \in m_showSourceListeners
       THEN /\ UNCHANGED m_showSourceListeners
            /\ lastCall' = Call("AddListener", "duplicate", FALSE)
       ELSE /\ m_showSourceListeners' = m_showSourceListeners \cup {listener}
            /\ lastCall' = Call("AddListener", "ok", TRUE)
    /\ cycleTicks' = -1
    /\ UNCHANGED <<m_isLinked, queueLinkedToTiler,
                   m_batchSize, activeSources, showSourceState,
                   m_notifyClientsTimerId, showSourceTimers>>

\* bool TilerBintr::RemoveShowSourceListener(listener)
RemoveShowSourceListener(listener) ==
    /\ IF listener \notin m_showSourceListeners
       THEN /\ UNCHANGED m_showSourceListeners
            /\ lastCall' = Call("RemoveListener", "unknown", FALSE)
       ELSE /\ m_showSourceListeners' = m_showSourceListeners \ {listener}
            /\ lastCall' = Call("RemoveListener", "ok", TRUE)
    /\ cycleTicks' = -1
    /\ UNCHANGED <<m_isLinked, queueLinkedToTiler,
                   m_batchSize, activeSources, showSourceState,
                   m_notifyClientsTimerId, showSourceTimers>>


\* ================================================================ Player
VARIABLES
    m_playerIsLinked,       \* Bintr::m_isLinked of the Player
    sourceIsLinked,         \* m_pSource->IsLinked()
    sinkIsLinked,           \* m_pSink->IsLinked()
    sourceLinkedToSink,     \* m_pSource is linked to m_pSink
    currentState,           \* GstState of the Player's pipeline
    eosPending,             \* SendEos was issued and not yet seen on the bus
    mainLoopRunning,        \* g_main_loop_is_running(GetMainLoopHandle())
    loopCallbacks,          \* one-shot g_timeout_add(1, ...) callbacks, FIFO
    callerPc,               \* where the API caller's thread is
    m_terminationEventListeners,    \* registered listener callbacks
    throwingListeners,      \* the listeners that raise when invoked
    m_pSource,              \* m_pSource != nullptr
    m_pSink,                \* m_pSink != nullptr
    invoked,                \* history: invocations of each listener since
                            \* the last Stop() was entered
    ownCallbackRan,         \* history: the callback the blocked caller
                            \* scheduled has run
    playerCall              \* history: the Player call that returned last

playerVars == <<m_playerIsLinked, sourceIsLinked, sinkIsLinked,
                sourceLinkedToSink, currentState, eosPending,
                mainLoopRunning, loopCallbacks, callerPc,
                m_terminationEventListeners, throwingListeners,
                m_pSource, m_pSink, invoked,
                ownCallbackRan, playerCall>>

linkVars == <<m_playerIsLinked, sourceIsLinked, sinkIsLinked,
              sourceLinkedToSink>>

VARIABLES
    playerSteps,            \* history: the steps the Player operation that
                            \* ran last took, in the order it took them
    loopPc                  \* where the loop thread is when HandleStop is
                            \* followed lock by lock: "idle" between two
                            \* callbacks, or inside HandleStop or Stop()

\* One step of an operation, with the Player's link flag and the state of
\* its pipeline when the step begins.
Step(do, linked, state) == [do |-> do, linked |-> linked, state |-> state]

TermListeners == 1..MaxTermListeners

\* A queued one-shot callback: the handler, and (history) whether the
\* caller now blocked in g_cond_wait is the one that scheduled it.
Callback(fn, own) == [fn |-> fn, own |-> own]

PlayerInit ==
    /\ m_playerIsLinked = FALSE
    /\ sourceIsLinked = FALSE
    /\ sinkIsLinked = FALSE
    /\ sourceLinkedToSink = FALSE
    /\ currentState = "NULL"
    /\ eosPending = FALSE
    /\ mainLoopRunning \in BOOLEAN
    /\ loopCallbacks = <<>>
    /\ callerPc = "idle"
    /\ m_terminationEventListeners \in SUBSET TermListeners
    /\ throwingListeners \in SUBSET m_terminationEventListeners
    /\ m_pSource \in BOOLEAN
    /\ m_pSink \in BOOLEAN
    /\ invoked = [l \in TermListeners |-> 0]
    /\ ownCallbackRan = FALSE
    /\ playerCall = NoCall
    /\ playerSteps = <<>>
    /\ loopPc = "idle"

\* ChildrenPresent with the check left out
ChildrenPresent_Always == TRUE

\* lines 90 and 115: m_pSource and m_pSink are both set
ChildrenPresent == m_pSource /\ m_pSink

\* bool PlayerBintr::LinkAll().  srcOk, sinkOk and linkOk are what the
\* children's LinkAll and LinkToSink answer when they are reached; a child
\* that is already linked refuses.
PlayerLinkAllRet(srcOk, sinkOk, linkOk) ==
    /\ ChildrenPresent
    /\ ~m_playerIsLinked
    /\ ~sourceIsLinked /\ srcOk
    /\ ~sinkIsLinked /\ sinkOk
    /\ ~sourceLinkedToSink /\ linkOk

PlayerLinkAll(srcOk, sinkOk, linkOk) ==
    IF ~ChildrenPresent \/ m_playerIsLinked
    THEN UNCHANGED linkVars
    ELSE LET srcDone == ~sourceIsLinked /\ srcOk
             sinkDone == srcDone /\ ~sinkIsLinked /\ sinkOk
             linkDone == sinkDone /\ ~sourceLinkedToSink /\ linkOk
         IN /\ sourceIsLinked' = (sourceIsLinked \/ srcDone)
            /\ sinkIsLinked' = (sinkIsLinked \/ sinkDone)
            /\ sourceLinkedToSink' = (sourceLinkedToSink \/ linkDone)
            /\ m_playerIsLinked' = linkDone

\* void PlayerBintr::UnlinkAll().
\* m_pSource->UnlinkFromSink() fails when the source is not linked to a sink.
PlayerUnlinkAll ==
    IF ~ChildrenPresent \/ ~m_playerIsLinked \/ ~sourceLinkedToSink
    THEN UNCHANGED linkVars
    ELSE /\ sourceLinkedToSink' = FALSE
         /\ sourceIsLinked' = FALSE
         /\ sinkIsLinked' = FALSE
         /\ m_playerIsLinked' = FALSE

\* PipelineStateMgr::SetState(state, timeout): ok is whether the pipeline
\* reached the state within the timeout.  HandleStop and HandlePause go on
\* whatever it answers, and are followed here from a change that succeeded.
SetState(state, ok) == currentState' = IF ok THEN state ELSE currentState

\* lines 246-256: the listeners the sweep calls.  Each call sits in its own
\* try/catch, so a listener that raises does not end the sweep.
ListenersCalled == m_terminationEventListeners

InvokeListeners ==
    invoked' = [l \in TermListeners |->
                  IF l \in ListenersCalled /\ invoked[l] < MaxInvoked
                  THEN invoked[l] + 1 ELSE invoked[l]]

\* CondSignal with a signal that reaches nobody
CondSignal_Lost == callerPc' = callerPc

\* g_cond_signal(&m_asyncCondition): wakes the caller if it is waiting,
\* and is lost otherwise.
CondSignal ==
    callerPc' = IF mainLoopRunning /\ callerPc \in {"stopWait", "pauseWait"}
                THEN IF callerPc = "stopWait" THEN "stopWoken" ELSE "pauseWoken"
                ELSE callerPc

\* LinkedWhenListenersRun with the listeners called before UnlinkAll()
LinkedWhenListenersRun_BeforeUnlink == m_playerIsLinked

\* lines 240-246: the listener loop follows UnlinkAll(), so the listeners
\* find the link flag as UnlinkAll() left it
LinkedWhenListenersRun == m_playerIsLinked'

\* lines 236-256: SetState(GST_STATE_NULL), UnlinkAll(), the listener loop
HandleStopSteps ==
    <<Step("SetState NULL", m_playerIsLinked, currentState),
      Step("UnlinkAll", m_playerIsLinked, "NULL")>>
    \o (IF ListenersCalled = {}
        THEN <<>>
        ELSE <<Step("Listeners", LinkedWhenListenersRun, "NULL")>>)

\* void PlayerBintr::HandleStop(), all of it under m_asyncCommMutex
HandleStop ==
    /\ SetState("NULL", TRUE)
    /\ eosPending' = FALSE
    /\ PlayerUnlinkAll
    /\ CondSignal
    /\ InvokeListeners
    /\ playerSteps' = HandleStopSteps

\* void PlayerBintr::HandlePause(), all of it under m_asyncCommMutex
HandlePause ==
    /\ SetState("PAUSED", TRUE)
    /\ CondSignal
    /\ playerSteps' = <<Step("SetState PAUSED", m_playerIsLinked, currentState)>>
    /\ UNCHANGED <<linkVars, eosPending, invoked>>

\* ------------------------------------------------------- the caller thread

\* PlayStartsFromNull with the test left out
PlayStartsFromNull_Never == FALSE

\* line 142: if (currentState == GST_STATE_NULL)
PlayStartsFromNull == currentState = "NULL"

\* bool PlayerBintr::Play()
Play(srcOk, sinkOk, linkOk, pausedOk, playingOk) ==
    /\ callerPc = "idle"
    /\ IF PlayStartsFromNull
       THEN /\ PlayerLinkAll(srcOk, sinkOk, linkOk)
            /\ IF ~PlayerLinkAllRet(srcOk, sinkOk, linkOk)
               THEN /\ UNCHANGED currentState
                    /\ playerSteps' =
                         <<Step("LinkAll", m_playerIsLinked, currentState)>>
                    /\ playerCall' = Call("Play", "linkFailed", FALSE)
               ELSE IF ~pausedOk
               THEN /\ UNCHANGED currentState
                    /\ playerSteps' =
                         <<Step("LinkAll", m_playerIsLinked, currentState),
                           Step("SetState PAUSED", TRUE, currentState)>>
                    /\ playerCall' = Call("Play", "pauseFailed", FALSE)
               ELSE /\ currentState' =
                         IF playingOk THEN "PLAYING" ELSE "PAUSED"
                    /\ playerSteps' =
                         <<Step("LinkAll", m_playerIsLinked, currentState),
                           Step("SetState PAUSED", TRUE, currentState),
                           Step("SetState PLAYING", TRUE, "PAUSED")>>
                    /\ playerCall' = Call("Play", "linked", playingOk)
       ELSE /\ UNCHANGED linkVars
            /\ SetState("PLAYING", playingOk)
            /\ playerSteps' =
                 <<Step("SetState PLAYING", m_playerIsLinked, currentState)>>
            /\ playerCall' = Call("Play", "direct", playingOk)
    /\ UNCHANGED <<eosPending, mainLoopRunning, loopCallbacks, callerPc,
                   m_terminationEventListeners, throwingListeners,
                   m_pSource, m_pSink, invoked,
                   ownCallbackRan>>

\* bool PlayerBintr::Pause()
Pause ==
    /\ callerPc = "idle"
    /\ IF currentState # "PLAYING"
       THEN /\ playerCall' = Call("Pause", "notPlaying", FALSE)
            /\ playerSteps' = <<>>
            /\ UNCHANGED <<linkVars, currentState, eosPending, loopCallbacks,
                           callerPc, invoked, ownCallbackRan>>
       ELSE IF mainLoopRunning
       THEN /\ Len(loopCallbacks) < MaxCallbacks
            /\ loopCallbacks' = Append(loopCallbacks, Callback("PlayerPause", TRUE))
            /\ callerPc' = "pauseWait"
            /\ ownCallbackRan' = FALSE
            /\ playerSteps' = <<>>
            /\ UNCHANGED <<linkVars, currentState, eosPending, invoked,
                           playerCall>>
       ELSE /\ HandlePause
            /\ playerCall' = Call("Pause", "inline", TRUE)
            /\ UNCHANGED <<loopCallbacks, ownCallbackRan>>
    /\ UNCHANGED <<mainLoopRunning, m_terminationEventListeners,
                   throwingListeners, m_pSource, m_pSink>>

\* StopRefused with the check left out
StopRefused_Never == FALSE

\* line 207: Stop() gives up when the Player is not linked
StopRefused == ~m_playerIsLinked

\* bool PlayerBintr::Stop(), lines 207-213: the check, SendEos(), sleep(1)
StopBegin ==
    /\ callerPc = "idle"
    /\ IF StopRefused
       THEN /\ playerCall' = Call("Stop", "notLinked", FALSE)
            /\ playerSteps' = <<>>
            /\ UNCHANGED <<eosPending, callerPc, invoked>>
       ELSE /\ eosPending' = TRUE
            /\ playerSteps' = <<Step("SendEos", m_playerIsLinked, currentState)>>
            /\ callerPc' = "stopSleep"
            /\ invoked' = [l \in TermListeners |-> 0]
            /\ UNCHANGED playerCall
    /\ UNCHANGED <<linkVars, currentState, mainLoopRunning, loopCallbacks,
                   m_terminationEventListeners, throwingListeners,
                   m_pSource, m_pSink,
                   ownCallbackRan>>

\* bool PlayerBintr::Stop(), lines 217-228: marshal to the loop or run in line
StopMarshal ==
    /\ callerPc = "stopSleep"
    /\ IF mainLoopRunning
       THEN /\ Len(loopCallbacks) < MaxCallbacks
            /\ loopCallbacks' = Append(loopCallbacks, Callback("PlayerStop", TRUE))
            /\ callerPc' = "stopWait"
            /\ ownCallbackRan' = FALSE
            /\ playerSteps' = <<>>
            /\ UNCHANGED <<linkVars, currentState, eosPending, invoked,
                           playerCall>>
       ELSE /\ SetState("NULL", TRUE)
            /\ eosPending' = FALSE
            /\ PlayerUnlinkAll
            /\ InvokeListeners
            /\ playerSteps' = HandleStopSteps
            /\ callerPc' = "idle"
            /\ playerCall' = Call("Stop", "inline", TRUE)
            /\ UNCHANGED <<loopCallbacks, ownCallbackRan>>
    /\ UNCHANGED <<mainLoopRunning, m_terminationEventListeners,
                   throwingListeners, m_pSource, m_pSink>>

\* g_cond_wait returns: the caller was signalled and owns the mutex again
CallerReturn ==
    /\ callerPc \in {"stopWoken", "pauseWoken"}
    /\ callerPc' = "idle"
    /\ playerCall' = Call(IF callerPc = "stopWoken" THEN "Stop" ELSE "Pause",
                          "marshaled", TRUE)
    /\ loopCallbacks' = [i \in 1..Len(loopCallbacks) |->
                            Callback(loopCallbacks[i].fn, FALSE)]
    /\ UNCHANGED <<linkVars, currentState, eosPending, mainLoopRunning,
                   m_terminationEventListeners, throwingListeners,
                   m_pSource, m_pSink, invoked,
                   ownCallbackRan>>

\* --------------------------------------------------------- the loop thread

\* static int PlayerStop / PlayerPause: the loop dispatches the oldest callback
Dispatch ==
    /\ mainLoopRunning
    /\ loopCallbacks # <<>>
    /\ loopCallbacks' = Tail(loopCallbacks)
    /\ IF Head(loopCallbacks).fn = "PlayerStop"
       THEN HandleStop
       ELSE HandlePause
    /\ ownCallbackRan' = (ownCallbackRan \/ Head(loopCallbacks).own)
    /\ UNCHANGED <<mainLoopRunning, m_terminationEventListeners,
                   throwingListeners, m_pSource, m_pSink, playerCall>>

\* HandleTermination with the signal dropped: no stop is scheduled
HandleTermination_Dropped ==
    /\ mainLoopRunning
    /\ eosPending \/ currentState = "PLAYING"
    /\ eosPending' = FALSE
    /\ UNCHANGED <<linkVars, currentState, mainLoopRunning, callerPc,
                   m_terminationEventListeners, throwingListeners,
                   m_pSource, m_pSink, invoked, loopCallbacks,
                   ownCallbackRan, playerCall>>

\* void PlayerBintr::HandleTermination(): the EOS listener and the window
\* delete handler registered by the constructor, lines 60-61
HandleTermination ==
    /\ mainLoopRunning
    /\ eosPending \/ currentState = "PLAYING"
    /\ Len(loopCallbacks) < MaxCallbacks
    /\ loopCallbacks' = Append(loopCallbacks, Callback("PlayerStop", FALSE))
    /\ eosPending' = FALSE
    /\ UNCHANGED <<linkVars, currentState, mainLoopRunning, callerPc,
                   m_terminationEventListeners, throwingListeners,
                   m_pSource, m_pSink, invoked,
                   ownCallbackRan, playerCall>>

\* The application runs or quits the main loop.
MainLoopRun ==
    /\ ~mainLoopRunning
    /\ callerPc = "idle"
    /\ mainLoopRunning' = TRUE
    /\ UNCHANGED <<linkVars, currentState, eosPending, loopCallbacks, callerPc,
                   m_terminationEventListeners, throwingListeners,
                   m_pSource, m_pSink, invoked,
                   ownCallbackRan, playerCall>>

MainLoopQuit ==
    /\ mainLoopRunning
    /\ callerPc = "idle"
    /\ mainLoopRunning' = FALSE
    /\ UNCHANGED <<linkVars, currentState, eosPending, loopCallbacks, callerPc,
                   m_terminationEventListeners, throwingListeners,
                   m_pSource, m_pSink, invoked,
                   ownCallbackRan, playerCall>>

\* ================================================================= Bintr
\* One container node seen through the members of the base class: a plain
\* Bintr, a Tiler (which overrides both setters) or a Player (which
\* overrides neither and is a pipeline of its own, so has no parent).
VARIABLES
    bintrKind,              \* "Bintr", "Tiler" or "Player"
    bintrIsLinked,          \* Bintr::m_isLinked
    bintrHasParent,         \* the node was added to a parent
    m_gpuId,                \* Bintr::m_gpuId
    m_nvbufMemType,         \* Bintr::m_nvbufMemType
    bintrCall               \* history: the call that returned last

bintrVars == <<bintrKind, bintrIsLinked, bintrHasParent, m_gpuId,
               m_nvbufMemType, bintrCall>>

BintrKinds == {"Bintr", "Tiler", "Player"}
GpuIds == 0..MaxGpuId
NvbufMemTypes == 0..MaxNvbufMemType

BintrInit ==
    /\ bintrKind \in BintrKinds
    /\ bintrIsLinked = FALSE
    /\ bintrHasParent = FALSE
    /\ m_gpuId = 0
    /\ m_nvbufMemType = 0
    /\ bintrCall = NoCall

\* bool IsInUse(): the node is owned by a parent
IsInUse == bintrHasParent

\* lines 340 and 485: what makes SetGpuId give up
SetGpuIdRefused == bintrIsLinked

\* lines 372 and 505: what makes SetNvbufMemType give up
SetNvbufMemTypeRefused ==
    IF bintrKind = "Tiler" THEN bintrIsLinked ELSE IsInUse

\* bool SetGpuId(uint gpuId), Bintr's and the Tiler's
BintrSetGpuId(gpuId) ==
    /\ IF SetGpuIdRefused
       THEN /\ UNCHANGED m_gpuId
            /\ bintrCall' = Call("SetGpuId", "refused", FALSE)
       ELSE /\ m_gpuId' = gpuId
            /\ bintrCall' = Call("SetGpuId", "ok", TRUE)
    /\ UNCHANGED <<bintrKind, bintrIsLinked, bintrHasParent, m_nvbufMemType>>

\* bool SetNvbufMemType(uint nvbufMemType), Bintr's and the Tiler's
BintrSetNvbufMemType(nvbufMemType) ==
    /\ IF SetNvbufMemTypeRefused
       THEN /\ UNCHANGED m_nvbufMemType
            /\ bintrCall' = Call("SetNvbufMemType", "refused", FALSE)
       ELSE /\ m_nvbufMemType' = nvbufMemType
            /\ bintrCall' = Call("SetNvbufMemType", "ok", TRUE)
    /\ UNCHANGED <<bintrKind, bintrIsLinked, bintrHasParent, m_gpuId>>

\* bool LinkAll() of the node's class: a Player links itself in Play(), any
\* other node is linked by the parent that owns it
BintrLinkAll ==
    /\ bintrKind = "Player" \/ bintrHasParent
    /\ IF bintrIsLinked
       THEN /\ UNCHANGED bintrIsLinked
            /\ bintrCall' = Call("LinkAll", "linked", FALSE)
       ELSE /\ bintrIsLinked' = TRUE
            /\ bintrCall' = Call("LinkAll", "ok", TRUE)
    /\ UNCHANGED <<bintrKind, bintrHasParent, m_gpuId, m_nvbufMemType>>

\* void UnlinkAll() of the node's class
BintrUnlinkAll ==
    /\ bintrIsLinked' = FALSE
    /\ bintrCall' = Call("UnlinkAll", "", bintrIsLinked)
    /\ UNCHANGED <<bintrKind, bintrHasParent, m_gpuId, m_nvbufMemType>>

\* bool AddToParent(pParent): a Player is never added to a parent
BintrAddToParent ==
    /\ bintrKind # "Player"
    /\ ~bintrHasParent
    /\ bintrHasParent' = TRUE
    /\ bintrCall' = Call("AddToParent", "ok", TRUE)
    /\ UNCHANGED <<bintrKind, bintrIsLinked, m_gpuId, m_nvbufMemType>>

\* bool RemoveFromParent(pParent), once the parent has unlinked the node
BintrRemoveFromParent ==
    /\ bintrHasParent
    /\ ~bintrIsLinked
    /\ bintrHasParent' = FALSE
    /\ bintrCall' = Call("RemoveFromParent", "ok", TRUE)
    /\ UNCHANGED <<bintrKind, bintrIsLinked, m_gpuId, m_nvbufMemType>>

\* ================================================== PipelineSourcesBintr
\* The Source Aggregator.  Its header declares the members and
\* GetNumChildren(); AddChild and RemoveChild follow the specification of
\* the aggregator and of its slot pool.
VARIABLES
    m_pChildSources,        \* the child sources by name
    m_pChildSourcesIndexed, \* the child sources by pad id (0 = no source)
    m_usedRequestPadIds,    \* the used flag of each pad id
    m_areSourcesLive,       \* liveness fixed by the first child
    m_requestPadId,         \* Bintr::m_requestPadId of each source
    isLive,                 \* each source's own liveness
    numAdds,                \* history: AddChild calls that returned true
    numRemoves,             \* history: RemoveChild calls that returned true
    sourcesCall             \* history: the call that returned last

sourcesVars == <<m_pChildSources, m_pChildSourcesIndexed, m_usedRequestPadIds,
                 m_areSourcesLive, m_requestPadId, isLive, numAdds,
                 numRemoves, sourcesCall>>

Sources == 1..MaxSources
RequestPadIds == 0..(MaxRequestPadIds - 1)

SourcesInit ==
    /\ m_pChildSources = {}
    /\ m_pChildSourcesIndexed = [id \in RequestPadIds |-> 0]
    /\ m_usedRequestPadIds = [id \in RequestPadIds |-> FALSE]
    /\ m_areSourcesLive = FALSE
    /\ m_requestPadId = [source \in Sources |-> -1]
    /\ isLive \in [Sources -> BOOLEAN]
    /\ numAdds = 0
    /\ numRemoves = 0
    /\ sourcesCall = NoCall

\* uint GetNumChildren() with the size of the pad id vector
GetNumChildren_PadIds == Cardinality(DOMAIN m_usedRequestPadIds)

\* uint GetNumChildren()
GetNumChildren == Cardinality(m_pChildSources)

\* bool IsChild(pChildSource): looks in m_pChildSources only
IsChild(source) == source \in m_pChildSources

\* The pad ids not marked used.
FreeRequestPadIds == {id \in RequestPadIds : ~m_usedRequestPadIds[id]}

\* Slot pool Allocate(): the first free index, scanning from 0 upward
Allocate ==
    CHOOSE id \in FreeRequestPadIds : \A other \in FreeRequestPadIds : id <= other

\* void SetRequestPadId(int id) with the id dropped
SetRequestPadId_Dropped(source, id) == m_requestPadId' = m_requestPadId

\* void SetRequestPadId(int id) of a source
SetRequestPadId(source, id) ==
    m_requestPadId' = [m_requestPadId EXCEPT ![source] = id]

\* A source whose liveness differs from the one the first child fixed.
LivenessConflicts(source) ==
    m_pChildSources # {} /\ isLive[source] # m_areSourcesLive

\* bool AddChild(DSL_SOURCE_PTR pChildSource)
AddChild(source) ==
    /\ numAdds < MaxSourceAdds
    /\ IF IsChild(source)
       THEN /\ sourcesCall' = Call("AddChild", "duplicate", FALSE)
            /\ UNCHANGED <<m_pChildSources, m_pChildSourcesIndexed,
                           m_usedRequestPadIds, m_areSourcesLive,
                           m_requestPadId, numAdds>>
       ELSE IF LivenessConflicts(source)
       THEN /\ sourcesCall' = Call("AddChild", "liveness", FALSE)
            /\ UNCHANGED <<m_pChildSources, m_pChildSourcesIndexed,
                           m_usedRequestPadIds, m_areSourcesLive,
                           m_requestPadId, numAdds>>
       ELSE IF FreeRequestPadIds = {}
       THEN /\ sourcesCall' = Call("AddChild", "exhausted", FALSE)
            /\ UNCHANGED <<m_pChildSources, m_pChildSourcesIndexed,
                           m_usedRequestPadIds, m_areSourcesLive,
                           m_requestPadId, numAdds>>
       ELSE /\ m_usedRequestPadIds' =
                    [m_usedRequestPadIds EXCEPT ![Allocate] = TRUE]
            /\ SetRequestPadId(source, Allocate)
            /\ m_areSourcesLive' = IF m_pChildSources = {}
                                   THEN isLive[source]
                                   ELSE m_areSourcesLive
            /\ m_pChildSources' = m_pChildSources \cup {source}
            /\ m_pChildSourcesIndexed' =
                    [m_pChildSourcesIndexed EXCEPT ![Allocate] = source]
            /\ numAdds' = numAdds + 1
            /\ sourcesCall' = Call("AddChild", "ok", TRUE)
    /\ UNCHANGED <<isLive, numRemoves>>

\* bool RemoveChild(DSL_SOURCE_PTR pChildSource)
RemoveChild(source) ==
    /\ IF ~IsChild(source)
       THEN /\ sourcesCall' = Call("RemoveChild", "notChild", FALSE)
            /\ UNCHANGED <<m_pChildSources, m_pChildSourcesIndexed,
                           m_usedRequestPadIds, m_requestPadId, numRemoves>>
       ELSE /\ m_usedRequestPadIds' =
                    [m_usedRequestPadIds EXCEPT ![m_requestPadId[source]] = FALSE]
            /\ m_pChildSourcesIndexed' =
                    [m_pChildSourcesIndexed EXCEPT ![m_requestPadId[source]] = 0]
            /\ m_pChildSources' = m_pChildSources \ {source}
            /\ SetRequestPadId(source, -1)
            /\ numRemoves' = numRemoves + 1
            /\ sourcesCall' = Call("RemoveChild", "ok", TRUE)
    /\ UNCHANGED <<m_areSourcesLive, isLive, numAdds>>

\* ============================================================== Services
\* The pipeline services of the API boundary (DslServicesPipeline.cpp).
\* PipelineBintr, the components and the handlers are the engine: a call
\* the services delegate to it succeeds, fails or throws as its caller
\* in the model says.
VARIABLES
    m_pipelines,        \* std::map: pipeline name -> shared_ptr<PipelineBintr>
    m_components,       \* std::map: component name -> component
    m_padProbeHandlers, \* std::map: handler name -> pad probe handler
    m_servicesMutex,    \* the thread that owns the API mutex (0 = free)
    threadPc,           \* each caller thread's position in its service call
    threadCall,         \* each caller thread's service call
    servicesCall        \* history: the service call that returned last

servicesVars == <<m_pipelines, m_components, m_padProbeHandlers,
                  m_servicesMutex, threadPc, threadCall, servicesCall>>

PipelineNames == 1..MaxPipelines
Threads == 1..MaxThreads
AudioSources == {"audio-source-1", "audio-source-2"}
ComponentNames == AudioSources \cup {"tiler"}
HandlerNames == {"pph"}
UnknownName == "unknown"
NullPtr == [ptr |-> "null"]
EngineOutcomes == {"ok", "fail", "throw"}

\* The volumes a caller passes: below, at and above both ends of the range.
VolumeSamples ==
    {AudiomixVolumeMin - 1, AudiomixVolumeMin, DefaultVolume,
     AudiomixVolumeMax, AudiomixVolumeMax + 1}

\* new PipelineBintr(name)
NewPipelineBintr ==
    [children |-> {},
     pphs |-> {},
     volume |-> [source \in AudioSources |-> DefaultVolume],
     mute |-> [source \in AudioSources |-> FALSE],
     mainLoopRunning |-> FALSE]

NoThreadCall == [op |-> "none", name |-> 0]

ServicesInit ==
    /\ m_pipelines = <<>>
    /\ m_components = [component \in ComponentNames |->
                          IF component \in AudioSources
                          THEN "AudioSourceBintr" ELSE "TilerBintr"]
    /\ m_padProbeHandlers = [handler \in HandlerNames |-> "PadProbeHandler"]
    /\ m_servicesMutex = 0
    /\ threadPc = [t \in Threads |-> "idle"]
    /\ threadCall = [t \in Threads |-> NoThreadCall]
    /\ servicesCall = Call("none", "", "")

\* std::map assignment map[key] = value
MapSet(map, key, value) ==
    [k \in DOMAIN map \cup {key} |-> IF k = key THEN value ELSE map[k]]

\* std::map::erase(key)
MapErase(map, key) == [k \in DOMAIN map \ {key} |-> map[k]]

\* std::map::operator[](key): a key that is missing is inserted with a
\* default-constructed (null) shared_ptr
MapIndex(map, key) ==
    IF key \in DOMAIN map THEN map ELSE MapSet(map, key, NullPtr)

\* The names whose entry holds a pipeline.
Pipelines == {name \in DOMAIN m_pipelines : m_pipelines[name] # NullPtr}

\* uint Services::PipelineListSize()
PipelineListSize == Cardinality(DOMAIN m_pipelines)

\* The process took a signal in an earlier call.
Crashed == servicesCall.ret = "SIGSEGV"

\* return <ret>
Returns(op, path, ret) ==
    /\ servicesCall' = Call(op, path, ret)
    /\ UNCHANGED <<m_components, m_padProbeHandlers>>

\* return <ret> with the pipelines as they were
Rejects(op, path, ret) ==
    /\ Returns(op, path, ret)
    /\ UNCHANGED m_pipelines

\* A call through a null shared_ptr<PipelineBintr>: undefined behaviour;
\* the process takes a signal, or the call comes back and the service
\* goes on to its successful return.
NullDeref(op) ==
    \E ret \in {"SIGSEGV", "DSL_RESULT_SUCCESS"} :
        Returns(op, "nullPipeline", ret)

\* DSL_RETURN_IF_PIPELINE_NAME_NOT_FOUND(m_pipelines, name)
PipelineNameNotFound(name) == name \notin DOMAIN m_pipelines

\* DSL_RETURN_IF_COMPONENT_NAME_NOT_FOUND(m_components, component)
ComponentNameNotFound(component) == component \notin DOMAIN m_components

\* DSL_RETURN_IF_PPH_NAME_NOT_FOUND(m_padProbeHandlers, handler)
PphNameNotFound(handler) == handler \notin DOMAIN m_padProbeHandlers

\* DSL_RETURN_IF_COMPONENT_IS_NOT_AUDIO_SOURCE(m_components, source)
ComponentIsNotAudioSource(source) ==
    m_components[source] # "AudioSourceBintr"

\* m_components[component]->IsInUse()
ComponentIsInUse(component) ==
    \E name \in Pipelines : component \in m_pipelines[name].children

\* m_components[component]->IsParent(m_pipelines[name])
IsParent(component, name) ==
    /\ name \in Pipelines
    /\ component \in m_pipelines[name].children

\* m_pipelines[name] with one field of the pipeline replaced
WithField(name, field, value) ==
    MapSet(m_pipelines, name, [m_pipelines[name] EXCEPT ![field] = value])

\* DslReturnType Services::PipelineNew(const char* name)
PipelineNew(name, engine) ==
    IF MapIndex(m_pipelines, name)[name] # NullPtr
    THEN Rejects("PipelineNew", "notUnique",
                 "DSL_RESULT_PIPELINE_NAME_NOT_UNIQUE")
    ELSE IF engine = "throw"
    THEN /\ m_pipelines' = MapIndex(m_pipelines, name)
         /\ Returns("PipelineNew", "threw",
                    "DSL_RESULT_PIPELINE_THREW_EXCEPTION")
    ELSE /\ m_pipelines' = MapSet(m_pipelines, name, NewPipelineBintr)
         /\ Returns("PipelineNew", "ok", "DSL_RESULT_SUCCESS")

\* DslReturnType Services::PipelineDelete(const char* name)
PipelineDelete(name, engine) ==
    IF PipelineNameNotFound(name)
    THEN Rejects("PipelineDelete", "pipelineNotFound",
                 "DSL_RESULT_PIPELINE_NAME_NOT_FOUND")
    ELSE IF m_pipelines[name] = NullPtr
    THEN /\ NullDeref("PipelineDelete")
         /\ m_pipelines' = IF servicesCall'.ret = "SIGSEGV"
                           THEN m_pipelines
                           ELSE MapErase(m_pipelines, name)
    ELSE IF engine = "throw"
    THEN Rejects("PipelineDelete", "threw",
                 "DSL_RESULT_PIPELINE_THREW_EXCEPTION")
    ELSE /\ m_pipelines' = MapErase(m_pipelines, name)
         /\ Returns("PipelineDelete", "ok", "DSL_RESULT_SUCCESS")

\* The entry the loop of PipelineDeleteAll stops at: the first, in the
\* order of the map, that is null or whose RemoveAllChildren throws
\* (0 = the loop runs to its end).
DeleteAllStopsAt(throwAt) ==
    LET stops == {name \in DOMAIN m_pipelines :
                     m_pipelines[name] = NullPtr \/ name = throwAt}
    IN  IF stops = {} THEN 0
        ELSE CHOOSE name \in stops : \A other \in stops : name <= other

\* DslReturnType Services::PipelineDeleteAll()
PipelineDeleteAll(throwAt) ==
    LET stopAt == DeleteAllStopsAt(throwAt)
        nulled == [name \in DOMAIN m_pipelines |->
                      IF name < stopAt THEN NullPtr ELSE m_pipelines[name]]
    IN  IF stopAt = 0
        THEN /\ m_pipelines' = <<>>
             /\ Returns("PipelineDeleteAll", "ok", "DSL_RESULT_SUCCESS")
        ELSE IF m_pipelines[stopAt] = NullPtr
        THEN /\ NullDeref("PipelineDeleteAll")
             /\ m_pipelines' = IF servicesCall'.ret = "SIGSEGV"
                               THEN nulled ELSE <<>>
        ELSE /\ m_pipelines' = nulled
             /\ Returns("PipelineDeleteAll", "threw",
                        "DSL_RESULT_PIPELINE_THREW_EXCEPTION")

\* DslReturnType Services::PipelineComponentAdd(name, component)
PipelineComponentAdd(name, component, engine) ==
    IF PipelineNameNotFound(name)
    THEN Rejects("PipelineComponentAdd", "pipelineNotFound",
                 "DSL_RESULT_PIPELINE_NAME_NOT_FOUND")
    ELSE IF ComponentNameNotFound(component)
    THEN Rejects("PipelineComponentAdd", "componentNotFound",
                 "DSL_RESULT_COMPONENT_NAME_NOT_FOUND")
    ELSE IF ComponentIsInUse(component)
    THEN Rejects("PipelineComponentAdd", "inUse",
                 "DSL_RESULT_COMPONENT_IN_USE")
    ELSE IF m_pipelines[name] = NullPtr
    THEN NullDeref("PipelineComponentAdd") /\ UNCHANGED m_pipelines
    ELSE IF engine = "throw"
    THEN Rejects("PipelineComponentAdd", "threw",
                 "DSL_RESULT_PIPELINE_THREW_EXCEPTION")
    ELSE IF engine = "fail"
    THEN Rejects("PipelineComponentAdd", "failed",
                 "DSL_RESULT_PIPELINE_COMPONENT_ADD_FAILED")
    ELSE /\ m_pipelines' = WithField(name, "children",
                m_pipelines[name].children \cup {component})
         /\ Returns("PipelineComponentAdd", "ok", "DSL_RESULT_SUCCESS")

\* DslReturnType Services::PipelineComponentRemove(name, component)
PipelineComponentRemove(name, component, engine) ==
    IF PipelineNameNotFound(name)
    THEN Rejects("PipelineComponentRemove", "pipelineNotFound",
                 "DSL_RESULT_PIPELINE_NAME_NOT_FOUND")
    ELSE IF ComponentNameNotFound(component)
    THEN Rejects("PipelineComponentRemove", "componentNotFound",
                 "DSL_RESULT_COMPONENT_NAME_NOT_FOUND")
    ELSE IF m_pipelines[name] = NullPtr
    THEN NullDeref("PipelineComponentRemove") /\ UNCHANGED m_pipelines
    ELSE IF ~IsParent(component, name)
    THEN Rejects("PipelineComponentRemove", "notParent",
                 "DSL_RESULT_COMPONENT_NOT_USED_BY_PIPELINE")
    ELSE IF engine = "throw"
    THEN Rejects("PipelineComponentRemove", "threw",
                 "DSL_RESULT_PIPELINE_COMPONENT_REMOVE_FAILED")
    ELSE IF engine = "fail"
    THEN Rejects("PipelineComponentRemove", "failed", "DSL_RESULT_SUCCESS")
    ELSE /\ m_pipelines' = WithField(name, "children",
                m_pipelines[name].children \ {component})
         /\ Returns("PipelineComponentRemove", "ok", "DSL_RESULT_SUCCESS")

\* DslReturnType Services::PipelineStreammuxPphAdd(name, streammux, handler)
PipelineStreammuxPphAdd(name, handler, engine) ==
    IF PipelineNameNotFound(name)
    THEN Rejects("PipelineStreammuxPphAdd", "pipelineNotFound",
                 "DSL_RESULT_PIPELINE_NAME_NOT_FOUND")
    ELSE IF PphNameNotFound(handler)
    THEN Rejects("PipelineStreammuxPphAdd", "handlerNotFound",
                 "DSL_RESULT_PPH_NAME_NOT_FOUND")
    ELSE IF m_pipelines[name] = NullPtr
    THEN NullDeref("PipelineStreammuxPphAdd") /\ UNCHANGED m_pipelines
    ELSE IF engine = "throw"
    THEN Rejects("PipelineStreammuxPphAdd", "threw",
                 "DSL_RESULT_PIPELINE_THREW_EXCEPTION")
    ELSE IF engine = "fail" \/ handler \in m_pipelines[name].pphs
    THEN Rejects("PipelineStreammuxPphAdd", "failed",
                 "DSL_RESULT_PIPELINE_STREAMMUX_HANDLER_ADD_FAILED")
    ELSE /\ m_pipelines' = WithField(name, "pphs",
                m_pipelines[name].pphs \cup {handler})
         /\ Returns("PipelineStreammuxPphAdd", "ok", "DSL_RESULT_SUCCESS")

\* DslReturnType Services::PipelineStreammuxPphRemove(name, streammux,
\* handler)
PipelineStreammuxPphRemove(name, handler, engine) ==
    IF PipelineNameNotFound(name)
    THEN Rejects("PipelineStreammuxPphRemove", "pipelineNotFound",
                 "DSL_RESULT_PIPELINE_NAME_NOT_FOUND")
    ELSE IF PphNameNotFound(handler)
    THEN Rejects("PipelineStreammuxPphRemove", "handlerNotFound",
                 "DSL_RESULT_PPH_NAME_NOT_FOUND")
    ELSE IF m_pipelines[name] = NullPtr
    THEN NullDeref("PipelineStreammuxPphRemove") /\ UNCHANGED m_pipelines
    ELSE IF engine = "throw"
    THEN Rejects("PipelineStreammuxPphRemove", "threw",
                 "DSL_RESULT_PIPELINE_THREW_EXCEPTION")
    ELSE IF engine = "fail" \/ handler \notin m_pipelines[name].pphs
    THEN Rejects("PipelineStreammuxPphRemove", "failed",
                 "DSL_RESULT_PIPELINE_STREAMMUX_HANDLER_REMOVE_FAILED")
    ELSE /\ m_pipelines' = WithField(name, "pphs",
                m_pipelines[name].pphs \ {handler})
         /\ Returns("PipelineStreammuxPphRemove", "ok", "DSL_RESULT_SUCCESS")

\* if (volume < 0.0 or volume > 10.0) with the lower end not tested
VolumeOutOfRange_UpperOnly(volume) == volume > AudiomixVolumeMax

\* if (volume < 0.0 or volume > 10.0)
VolumeOutOfRange(volume) ==
    volume < AudiomixVolumeMin \/ volume > AudiomixVolumeMax

\* DslReturnType Services::PipelineAudiomixVolumeSet(name, source, volume)
PipelineAudiomixVolumeSet(name, source, volume, engine) ==
    IF PipelineNameNotFound(name)
    THEN Rejects("PipelineAudiomixVolumeSet", "pipelineNotFound",
                 "DSL_RESULT_PIPELINE_NAME_NOT_FOUND")
    ELSE IF ComponentNameNotFound(source)
    THEN Rejects("PipelineAudiomixVolumeSet", "componentNotFound",
                 "DSL_RESULT_COMPONENT_NAME_NOT_FOUND")
    ELSE IF ComponentIsNotAudioSource(source)
    THEN Rejects("PipelineAudiomixVolumeSet", "notAudioSource",
                 "DSL_RESULT_COMPONENT_NOT_THE_CORRECT_TYPE")
    ELSE IF VolumeOutOfRange(volume)
    THEN Rejects("PipelineAudiomixVolumeSet", "outOfRange",
                 "DSL_RESULT_PIPELINE_AUDIOMIX_SET_FAILED")
    ELSE IF m_pipelines[name] = NullPtr
    THEN NullDeref("PipelineAudiomixVolumeSet") /\ UNCHANGED m_pipelines
    ELSE IF engine = "throw"
    THEN Rejects("PipelineAudiomixVolumeSet", "threw",
                 "DSL_RESULT_PIPELINE_THREW_EXCEPTION")
    ELSE IF engine = "fail"
    THEN Rejects("PipelineAudiomixVolumeSet", "failed",
                 "DSL_RESULT_PIPELINE_AUDIOMIX_SET_FAILED")
    ELSE /\ m_pipelines' = WithField(name, "volume",
                [m_pipelines[name].volume EXCEPT ![source] = volume])
         /\ Returns("PipelineAudiomixVolumeSet", "ok", "DSL_RESULT_SUCCESS")

\* DslReturnType Services::PipelineDumpToDot(name, filename): the engine's
\* DumpToDot is called outside any try block, so what it throws leaves the
\* service with the caller
PipelineDumpToDot(name, engine) ==
    IF PipelineNameNotFound(name)
    THEN Rejects("PipelineDumpToDot", "pipelineNotFound",
                 "DSL_RESULT_PIPELINE_NAME_NOT_FOUND")
    ELSE IF m_pipelines[name] = NullPtr
    THEN NullDeref("PipelineDumpToDot") /\ UNCHANGED m_pipelines
    ELSE IF engine = "throw"
    THEN Rejects("PipelineDumpToDot", "threw", "exception")
    ELSE Rejects("PipelineDumpToDot", "ok", "DSL_RESULT_SUCCESS")

\* DslReturnType Services::PipelineDumpToDotWithTs(name, filename)
PipelineDumpToDotWithTs(name, engine) ==
    IF PipelineNameNotFound(name)
    THEN Rejects("PipelineDumpToDotWithTs", "pipelineNotFound",
                 "DSL_RESULT_PIPELINE_NAME_NOT_FOUND")
    ELSE IF m_pipelines[name] = NullPtr
    THEN NullDeref("PipelineDumpToDotWithTs") /\ UNCHANGED m_pipelines
    ELSE IF engine = "throw"
    THEN Rejects("PipelineDumpToDotWithTs", "threw", "exception")
    ELSE Rejects("PipelineDumpToDotWithTs", "ok", "DSL_RESULT_SUCCESS")

\* ---------------------------------------------------- the caller threads
\* A service called by a thread: it enters (taking the API mutex if the
\* service takes it), runs the body that reads or changes the maps, and
\* leaves.  PipelineMainLoopRun looks the name up, then indexes the map and
\* blocks in the pipeline's main loop until the loop is quit.
ThreadOps ==
    {"PipelineNew", "PipelineDelete", "PipelineMainLoopRun",
     "PipelineMainLoopQuit"}

\* LOCK_MUTEX_FOR_CURRENT_SCOPE(&m_servicesMutex) is the first statement of
\* the service: "Note: do not lock mutex - blocking call" in
\* PipelineMainLoopRun
TakesMutex(op) == op # "PipelineMainLoopRun"

\* The thread is inside a service whose body changes m_pipelines.
MutatesRegistry(t) ==
    /\ threadPc[t] = "inService"
    /\ threadCall[t].op \in {"PipelineNew", "PipelineDelete"}

\* The thread is inside a service, before a statement that looks a name up
\* in m_pipelines or indexes it.
ReadsRegistry(t) == threadPc[t] \in {"inService", "found"}

\* Another thread is changing m_pipelines.
Racing(t) == \E other \in Threads \ {t} : MutatesRegistry(other)

SetPc(t, pc) == threadPc' = [threadPc EXCEPT ![t] = pc]

\* DslReturnType Services::PipelineMainLoopQuit(const char* name)
PipelineMainLoopQuit(name, engine) ==
    IF PipelineNameNotFound(name)
    THEN Rejects("PipelineMainLoopQuit", "pipelineNotFound",
                 "DSL_RESULT_PIPELINE_NAME_NOT_FOUND")
    ELSE IF m_pipelines[name] = NullPtr
    THEN NullDeref("PipelineMainLoopQuit") /\ UNCHANGED m_pipelines
    ELSE IF engine = "throw"
    THEN Rejects("PipelineMainLoopQuit", "threw",
                 "DSL_RESULT_PIPELINE_THREW_EXCEPTION")
    ELSE IF engine = "fail" \/ ~m_pipelines[name].mainLoopRunning
    THEN Rejects("PipelineMainLoopQuit", "failed",
                 "DSL_RESULT_PIPELINE_MAIN_LOOP_REQUEST_FAILED")
    ELSE /\ m_pipelines' = WithField(name, "mainLoopRunning", FALSE)
         /\ Returns("PipelineMainLoopQuit", "ok", "DSL_RESULT_SUCCESS")

\* The thread calls a service and passes its first statement.
ServiceEnter(t, op, name) ==
    /\ ~Crashed
    /\ threadPc[t] = "idle"
    /\ IF TakesMutex(op)
       THEN /\ m_servicesMutex = 0
            /\ m_servicesMutex' = t
       ELSE UNCHANGED m_servicesMutex
    /\ SetPc(t, "inService")
    /\ threadCall' = [threadCall EXCEPT ![t] = [op |-> op, name |-> name]]
    /\ UNCHANGED <<m_pipelines, m_components, m_padProbeHandlers,
                   servicesCall>>

\* DSL_RETURN_IF_PIPELINE_NAME_NOT_FOUND(m_pipelines, name) of
\* PipelineMainLoopRun: a lookup that runs while another thread changes the
\* map is a data race, which finds the name, misses it, or faults
MainLoopRunLookup(t, name) ==
    \E outcome \in IF Racing(t) THEN {"found", "notFound", "fault"}
                   ELSE IF PipelineNameNotFound(name) THEN {"notFound"}
                   ELSE {"found"} :
        IF outcome = "found"
        THEN /\ SetPc(t, "found")
             /\ UNCHANGED <<m_pipelines, m_components, m_padProbeHandlers,
                            servicesCall>>
        ELSE /\ SetPc(t, "leaving")
             /\ Rejects("PipelineMainLoopRun",
                        IF outcome = "fault" THEN "race" ELSE "pipelineNotFound",
                        IF outcome = "fault" THEN "SIGSEGV"
                        ELSE "DSL_RESULT_PIPELINE_NAME_NOT_FOUND")

\* The body of the service the thread is in, with an engine that does what
\* it is asked.
ServiceBody(t) ==
    /\ ~Crashed
    /\ threadPc[t] = "inService"
    /\ LET op == threadCall[t].op
           name == threadCall[t].name
       IN  IF op = "PipelineMainLoopRun"
           THEN MainLoopRunLookup(t, name)
           ELSE /\ SetPc(t, "leaving")
                /\ \/ /\ op = "PipelineNew"
                      /\ PipelineNew(name, "ok")
                   \/ /\ op = "PipelineDelete"
                      /\ PipelineDelete(name, "ok")
                   \/ /\ op = "PipelineMainLoopQuit"
                      /\ PipelineMainLoopQuit(name, "ok")
    /\ UNCHANGED <<m_servicesMutex, threadCall>>

\* if (!m_pipelines[name]->RunMainLoop()) of PipelineMainLoopRun: the map
\* is indexed with the name the lookup found a moment ago
MainLoopRunIndex(t, engine) ==
    /\ ~Crashed
    /\ threadPc[t] = "found"
    /\ LET name == threadCall[t].name
           indexed == MapIndex(m_pipelines, name)
       IN  IF indexed[name] = NullPtr
           THEN /\ NullDeref("PipelineMainLoopRun")
                /\ m_pipelines' = indexed
                /\ SetPc(t, "leaving")
           ELSE IF engine = "throw"
           THEN /\ Rejects("PipelineMainLoopRun", "threw",
                           "DSL_RESULT_PIPELINE_THREW_EXCEPTION")
                /\ SetPc(t, "leaving")
           ELSE IF engine = "fail" \/ m_pipelines[name].mainLoopRunning
           THEN /\ Rejects("PipelineMainLoopRun", "failed",
                           "DSL_RESULT_PIPELINE_MAIN_LOOP_REQUEST_FAILED")
                /\ SetPc(t, "leaving")
           ELSE /\ m_pipelines' = WithField(name, "mainLoopRunning", TRUE)
                /\ UNCHANGED <<m_components, m_padProbeHandlers,
                               servicesCall>>
                /\ SetPc(t, "running")
    /\ UNCHANGED <<m_servicesMutex, threadCall>>

\* RunMainLoop() returns: the loop was quit, or the pipeline it ran in was
\* deleted under it
MainLoopRunReturns(t) ==
    /\ ~Crashed
    /\ threadPc[t] = "running"
    /\ LET name == threadCall[t].name
       IN  IF name \in Pipelines
           THEN /\ ~m_pipelines[name].mainLoopRunning
                /\ Rejects("PipelineMainLoopRun", "ok", "DSL_RESULT_SUCCESS")
           ELSE NullDeref("PipelineMainLoopRun") /\ UNCHANGED m_pipelines
    /\ SetPc(t, "leaving")
    /\ UNCHANGED <<m_servicesMutex, threadCall>>

\* The service returns to the thread; its scope releases the API mutex.
ServiceLeave(t) ==
    /\ threadPc[t] = "leaving"
    /\ SetPc(t, "idle")
    /\ threadCall' = [threadCall EXCEPT ![t] = NoThreadCall]
    /\ m_servicesMutex' = IF m_servicesMutex = t THEN 0 ELSE m_servicesMutex
    /\ UNCHANGED <<m_pipelines, m_components, m_padProbeHandlers,
                   servicesCall>>

\* ---------------------------------------------------------- specification
\* What each component leaves alone.
nonTilerVars ==
    <<playerVars, playerSteps, loopPc, bintrVars, sourcesVars, servicesVars>>
nonPlayerVars ==
    <<tilerVars, tilerClientVars, loopPc, bintrVars, sourcesVars, servicesVars>>
nonBintrVars ==
    <<tilerVars, tilerClientVars, playerVars, playerSteps, loopPc, sourcesVars,
      servicesVars>>
nonSourcesVars ==
    <<tilerVars, tilerClientVars, playerVars, playerSteps, loopPc, bintrVars,
      servicesVars>>
nonServicesVars ==
    <<tilerVars, tilerClientVars, playerVars, playerSteps, loopPc, bintrVars,
      sourcesVars>>

\* A component nothing is called on: it stays as constructed.
BintrIdle == BintrInit /\ bintrKind = "Bintr"
SourcesIdle == SourcesInit /\ isLive = [source \in Sources |-> FALSE]

StreamIds == -1..(MaxBatchSize - 1)
Timeouts == 0..MaxTimeout

\* A Tiler operation that calls no listener, with no query under way.
NoClientCall == sweep' = NoSweep /\ UNCHANGED <<queryVars, notifyIt>>

CallSetShowSource ==
    /\ \E streamId \in StreamIds, timeout \in Timeouts,
          hasPrecedence \in BOOLEAN :
            SetShowSource(streamId, timeout, hasPrecedence)
    /\ NoClientCall
    /\ UNCHANGED nonTilerVars
CallCycleAllSources ==
    /\ \E timeout \in Timeouts : CycleAllSources(timeout)
    /\ NoClientCall
    /\ UNCHANGED nonTilerVars
CallShowAllSources ==
    ShowAllSources /\ NoClientCall /\ UNCHANGED nonTilerVars
ShowSourceTimerHandler ==
    /\ \E id \in showSourceTimers : HandleShowSourceTimer(id)
    /\ NoClientCall
    /\ UNCHANGED nonTilerVars
\* the sweep over listeners that return normally
NotifyClientsTimerHandler ==
    /\ HandleNotifiyClients({})
    /\ UNCHANGED <<queryVars, notifyIt, nonTilerVars>>
\* the sweep over listeners some of which raise
NotifyRaisingClients ==
    /\ \E thrown \in SUBSET m_showSourceListeners : HandleNotifiyClients(thrown)
    /\ UNCHANGED <<queryVars, notifyIt, nonTilerVars>>
CallLinkAll == TilerLinkAll /\ NoClientCall /\ UNCHANGED nonTilerVars
CallUnlinkAll ==
    TilerUnlinkAll /\ NoClientCall /\ UNCHANGED nonTilerVars

CallPlay ==
    /\ \E srcOk, sinkOk, linkOk, pausedOk, playingOk \in BOOLEAN :
          Play(srcOk, sinkOk, linkOk, pausedOk, playingOk)
    /\ UNCHANGED nonPlayerVars
CallPause == Pause /\ UNCHANGED nonPlayerVars
CallStop == StopBegin /\ UNCHANGED nonPlayerVars
CallStopMarshal == StopMarshal /\ UNCHANGED nonPlayerVars
CallStopReturn ==
    CallerReturn /\ playerSteps' = <<>> /\ UNCHANGED nonPlayerVars
PlayerCallback == Dispatch /\ UNCHANGED nonPlayerVars
PlayerTerminate ==
    HandleTermination /\ playerSteps' = <<>> /\ UNCHANGED nonPlayerVars
CallMainLoopRun ==
    MainLoopRun /\ playerSteps' = <<>> /\ UNCHANGED nonPlayerVars
CallMainLoopQuit ==
    MainLoopQuit /\ playerSteps' = <<>> /\ UNCHANGED nonPlayerVars

CallSetGpuId ==
    /\ \E gpuId \in GpuIds : BintrSetGpuId(gpuId)
    /\ UNCHANGED nonBintrVars
CallSetNvbufMemType ==
    /\ \E nvbufMemType \in NvbufMemTypes : BintrSetNvbufMemType(nvbufMemType)
    /\ UNCHANGED nonBintrVars
CallBintrLinkAll == BintrLinkAll /\ UNCHANGED nonBintrVars
CallBintrUnlinkAll == BintrUnlinkAll /\ UNCHANGED nonBintrVars
CallAddToParent == BintrAddToParent /\ UNCHANGED nonBintrVars
CallRemoveFromParent == BintrRemoveFromParent /\ UNCHANGED nonBintrVars

CallAddChild ==
    /\ \E source \in Sources : AddChild(source)
    /\ UNCHANGED nonSourcesVars
CallRemoveChild ==
    /\ \E source \in Sources : RemoveChild(source)
    /\ UNCHANGED nonSourcesVars

\* A service that takes the API mutex for its scope and runs to its return
\* with no other thread inside a service.
Locked(service) ==
    /\ ~Crashed
    /\ m_servicesMutex = 0
    /\ service
    /\ UNCHANGED <<m_servicesMutex, threadPc, threadCall>>
    /\ UNCHANGED nonServicesVars

CallPipelineNew ==
    Locked(\E name \in PipelineNames, engine \in {"ok", "throw"} :
              PipelineNew(name, engine))
CallPipelineDelete ==
    Locked(\E name \in PipelineNames, engine \in {"ok", "throw"} :
              PipelineDelete(name, engine))
CallPipelineDeleteAll ==
    Locked(\E throwAt \in PipelineNames \cup {0} : PipelineDeleteAll(throwAt))
CallPipelineComponentAdd ==
    Locked(\E name \in PipelineNames,
              component \in ComponentNames \cup {UnknownName},
              engine \in EngineOutcomes :
                PipelineComponentAdd(name, component, engine))
CallPipelineComponentRemove ==
    Locked(\E name \in PipelineNames,
              component \in ComponentNames \cup {UnknownName},
              engine \in EngineOutcomes :
                PipelineComponentRemove(name, component, engine))
CallPipelineStreammuxPphAdd ==
    Locked(\E name \in PipelineNames,
              handler \in HandlerNames \cup {UnknownName},
              engine \in EngineOutcomes :
                PipelineStreammuxPphAdd(name, handler, engine))
CallPipelineStreammuxPphRemove ==
    Locked(\E name \in PipelineNames,
              handler \in HandlerNames \cup {UnknownName},
              engine \in EngineOutcomes :
                PipelineStreammuxPphRemove(name, handler, engine))
CallPipelineAudiomixVolumeSet ==
    Locked(\E name \in PipelineNames,
              source \in ComponentNames \cup {UnknownName},
              volume \in VolumeSamples, engine \in EngineOutcomes :
                PipelineAudiomixVolumeSet(name, source, volume, engine))
CallPipelineDumpToDot ==
    Locked(\E name \in PipelineNames, engine \in {"ok", "throw"} :
              PipelineDumpToDot(name, engine))
CallPipelineDumpToDotWithTs ==
    Locked(\E name \in PipelineNames, engine \in {"ok", "throw"} :
              PipelineDumpToDotWithTs(name, engine))

ThreadEnters ==
    /\ \E t \in Threads, op \in ThreadOps, name \in PipelineNames :
          ServiceEnter(t, op, name)
    /\ UNCHANGED nonServicesVars
ThreadRunsBody ==
    /\ \E t \in Threads : ServiceBody(t)
    /\ UNCHANGED nonServicesVars
ThreadIndexes ==
    /\ \E t \in Threads : MainLoopRunIndex(t, "ok")
    /\ UNCHANGED nonServicesVars
ThreadMainLoopReturns ==
    /\ \E t \in Threads : MainLoopRunReturns(t)
    /\ UNCHANGED nonServicesVars
ThreadLeaves ==
    /\ \E t \in Threads : ServiceLeave(t)
    /\ UNCHANGED nonServicesVars

vars == <<tilerVars, tilerClientVars, playerVars, playerSteps, loopPc, bintrVars,
          sourcesVars,
          servicesVars>>

\* The Tiler alone: the Player is constructed and left untouched.
Init ==
    /\ ServicesInit
    /\ TilerInit
    /\ PlayerInit
    /\ ~mainLoopRunning
    /\ m_terminationEventListeners = {}
    /\ m_pSource /\ m_pSink
    /\ BintrIdle
    /\ SourcesIdle

Next ==
    \/ CallSetShowSource
    \/ CallCycleAllSources
    \/ CallShowAllSources
    \/ ShowSourceTimerHandler
    \/ NotifyClientsTimerHandler
    \/ CallLinkAll
    \/ CallUnlinkAll

Spec == Init /\ [][Next]_vars

\* The Tiler queried by one thread while another thread calls
\* SetShowSource and the main loop runs the timer.
QueryGetReadsStreamId ==
    /\ GetShowSourceReadStreamId
    /\ UNCHANGED <<tilerVars, sweep, notifyIt, nonTilerVars>>
QueryGetReadsTimeout ==
    /\ GetShowSourceReadTimeout
    /\ UNCHANGED <<tilerVars, sweep, notifyIt, nonTilerVars>>
QuerySetShowSource ==
    /\ \E streamId \in StreamIds, timeout \in Timeouts,
          hasPrecedence \in BOOLEAN :
            SetShowSource(streamId, timeout, hasPrecedence)
    /\ RunsBesideQuery
    /\ sweep' = NoSweep
    /\ UNCHANGED notifyIt
    /\ UNCHANGED nonTilerVars
QueryTimerHandler ==
    /\ \E id \in showSourceTimers : HandleShowSourceTimer(id)
    /\ RunsBesideQuery
    /\ sweep' = NoSweep
    /\ UNCHANGED notifyIt
    /\ UNCHANGED nonTilerVars
QueryLinkAll ==
    /\ TilerLinkAll
    /\ RunsBesideQuery
    /\ sweep' = NoSweep
    /\ UNCHANGED notifyIt
    /\ UNCHANGED nonTilerVars

QueryNext ==
    \/ QueryGetReadsStreamId
    \/ QueryGetReadsTimeout
    \/ QuerySetShowSource
    \/ QueryTimerHandler
    \/ QueryLinkAll

QuerySpec == Init /\ [][QueryNext]_vars

\* The Tiler from its construction, before its pipeline is linked: the
\* batch size is 0 until SetBatchSize is called, and the sources added to
\* the pipeline are known to the services by their slot.
CallSetBatchSize ==
    /\ \E batchSize \in 0..MaxBatchSize : SetBatchSize(batchSize)
    /\ NoClientCall
    /\ UNCHANGED nonTilerVars

BatchInit ==
    /\ ServicesInit
    /\ TilerConstructed
    /\ m_batchSize = 0
    /\ activeSources \in SUBSET (0..(MaxBatchSize - 1))
    /\ m_showSourceListeners = {}
    /\ PlayerInit
    /\ ~mainLoopRunning
    /\ m_terminationEventListeners = {}
    /\ m_pSource /\ m_pSink
    /\ BintrIdle
    /\ SourcesIdle

BatchNext ==
    \/ CallSetBatchSize
    \/ CallSetShowSource
    \/ CallCycleAllSources
    \/ CallShowAllSources
    \/ ShowSourceTimerHandler

BatchSpec == BatchInit /\ [][BatchNext]_vars

\* The Tiler and its listeners, which come, go and raise.
CallAddShowSourceListener ==
    /\ \E listener \in 1..MaxListeners : AddShowSourceListener(listener)
    /\ NoClientCall
    /\ UNCHANGED nonTilerVars
CallRemoveShowSourceListener ==
    /\ \E listener \in 1..MaxListeners : RemoveShowSourceListener(listener)
    /\ NoClientCall
    /\ UNCHANGED nonTilerVars

NotifyNext ==
    \/ CallSetShowSource
    \/ CallShowAllSources
    \/ CallAddShowSourceListener
    \/ CallRemoveShowSourceListener
    \/ NotifyRaisingClients

NotifySpec == Init /\ [][NotifyNext]_vars

\* The Player alone: the Tiler is constructed and left untouched.
PlayerSpecInit ==
    /\ ServicesInit
    /\ PlayerInit
    /\ TilerInit
    /\ BintrIdle
    /\ SourcesIdle
    /\ activeSources = {}
    /\ m_showSourceListeners = {}

PlayerNext ==
    \/ CallPlay
    \/ CallPause
    \/ CallStop
    \/ CallStopMarshal
    \/ CallStopReturn
    \/ PlayerCallback
    \/ PlayerTerminate
    \/ CallMainLoopRun
    \/ CallMainLoopQuit

PlayerSpec == PlayerSpecInit /\ [][PlayerNext]_vars

\* Linking and unlinking of both containers: the Tiler without sources,
\* the Player without listeners.
LinkSpecInit ==
    /\ ServicesInit
    /\ TilerInit
    /\ PlayerInit
    /\ BintrIdle
    /\ SourcesIdle
    /\ activeSources = {}
    /\ m_showSourceListeners = {}
    /\ m_terminationEventListeners = {}

LinkNext ==
    \/ CallLinkAll
    \/ CallUnlinkAll
    \/ CallPlay
    \/ CallStop
    \/ CallStopMarshal
    \/ CallStopReturn
    \/ PlayerCallback
    \/ PlayerTerminate

LinkSpec == LinkSpecInit /\ [][LinkNext]_vars

\* One container node and its setters: the Tiler and the Player of the
\* other components are constructed and left untouched.
BintrSpecInit ==
    /\ ServicesInit
    /\ BintrInit
    /\ SourcesIdle
    /\ TilerInit
    /\ activeSources = {}
    /\ m_showSourceListeners = {}
    /\ PlayerInit
    /\ ~mainLoopRunning
    /\ m_terminationEventListeners = {}
    /\ m_pSource /\ m_pSink

BintrNext ==
    \/ CallSetGpuId
    \/ CallSetNvbufMemType
    \/ CallBintrLinkAll
    \/ CallBintrUnlinkAll
    \/ CallAddToParent
    \/ CallRemoveFromParent

BintrSpec == BintrSpecInit /\ [][BintrNext]_vars

\* The Source Aggregator alone.
SourcesSpecInit ==
    /\ ServicesInit
    /\ SourcesInit
    /\ TilerInit
    /\ activeSources = {}
    /\ m_showSourceListeners = {}
    /\ PlayerInit
    /\ ~mainLoopRunning
    /\ m_terminationEventListeners = {}
    /\ m_pSource /\ m_pSink
    /\ BintrIdle

SourcesNext ==
    \/ CallAddChild
    \/ CallRemoveChild

SourcesSpec == SourcesSpecInit /\ [][SourcesNext]_vars

\* The containers of the other components, constructed and left untouched.
ContainersIdle ==
    /\ TilerInit
    /\ activeSources = {}
    /\ m_showSourceListeners = {}
    /\ PlayerInit
    /\ ~mainLoopRunning
    /\ m_terminationEventListeners = {}
    /\ m_pSource /\ m_pSink
    /\ BintrIdle
    /\ SourcesIdle

\* The pipeline services called by one thread: registry, components,
\* handlers, state changes and the dot dump.
ServicesSpecInit ==
    /\ ServicesInit
    /\ ContainersIdle

ServicesNext ==
    \/ CallPipelineNew
    \/ CallPipelineDelete
    \/ CallPipelineDeleteAll
    \/ CallPipelineComponentAdd
    \/ CallPipelineComponentRemove
    \/ CallPipelineStreammuxPphAdd
    \/ CallPipelineStreammuxPphRemove
    \/ CallPipelineDumpToDot
    \/ CallPipelineDumpToDotWithTs

ServicesSpec == ServicesSpecInit /\ [][ServicesNext]_vars

\* The audio mixer services called by one thread.
AudiomixSpecInit ==
    /\ ServicesInit
    /\ ContainersIdle

AudiomixNext ==
    \/ CallPipelineNew
    \/ CallPipelineDelete
    \/ CallPipelineAudiomixVolumeSet

AudiomixSpec == AudiomixSpecInit /\ [][AudiomixNext]_vars

\* The pipeline services called by several threads at once.
ThreadSpecInit ==
    /\ ServicesInit
    /\ ContainersIdle

ThreadNext ==
    \/ ThreadEnters
    \/ ThreadRunsBody
    \/ ThreadIndexes
    \/ ThreadMainLoopReturns
    \/ ThreadLeaves

ThreadSpec == ThreadSpecInit /\ [][ThreadNext]_vars

\* The Player with a main loop that services every callback scheduled on
\* it, and a caller that goes on once g_cond_wait has returned.
PlayerLiveSpec ==
    /\ PlayerSpec
    /\ WF_vars(PlayerCallback)
    /\ WF_vars(CallStopReturn)

\* =========================================================== Tiler claims

\* C1: SetShowSource(s, t, FALSE) on an idle Tiler (all sources shown, no
\* timer) for an active slot s returns true and shows s; while a timer is
\* active, SetShowSource(s2, t2, FALSE) for another slot returns false and
\* keeps the shown slot; the same call with precedence, for an active s2,
\* returns true and shows s2.
C1_PrecedenceRule ==
    [][\A s \in StreamIds, t \in Timeouts :
        /\ ( /\ SetShowSource(s, t, FALSE)
             /\ m_showStreamId = -1 /\ m_showSourceTimerId = 0
             /\ IsActiveSource(s) )
           => (lastCall'.ret /\ m_showStreamId' = s)
        /\ ( /\ SetShowSource(s, t, FALSE)
             /\ m_showSourceTimerId # 0 /\ s # m_showStreamId )
           => (~lastCall'.ret /\ m_showStreamId' = m_showStreamId)
        /\ ( /\ SetShowSource(s, t, TRUE)
             /\ m_showSourceTimerId # 0 /\ s # m_showStreamId
             /\ IsActiveSource(s) )
           => (lastCall'.ret /\ m_showStreamId' = s)
      ]_vars

\* A call with precedence replaced the slot shown by a running timer.
C1_Witness ==
    /\ lastCall = Call("SetShowSource", "override", TRUE)
    /\ m_showStreamId >= 0
    /\ m_showSourceTimerId # 0

\* Every slot of the batch has an active source.
AllSlotsActive == activeSources = 0..(m_batchSize - 1)

\* C2: once a tick of a linked, non-cycling Tiler (every slot active) counts
\* the counter down to zero, all sources are shown, the timer handle is
\* cleared and no show-source timeout source remains registered with the
\* main loop.
C2_ExpiryLeavesNoTimer ==
    (AllSlotsActive /\ lastCall = Call("Tick", "expire", FALSE))
        => /\ m_showStreamId = -1
           /\ m_showSourceTimerId = 0
           /\ showSourceTimers = {}

\* C3: after CycleAllSources(t), t > 0, on a linked Tiler whose slots
\* 0..batchSize-1 are all active, and with no further API call, the slot
\* shown after k ticks is (k div 10t) mod batchSize, the counter restarts at
\* 10t on every 10t-th tick, and the timer stays registered.
C3_CycleSequence ==
    /\ cycleTicks >= 0 =>
         LET period == TicksPerSecond * m_showSourceTimeout
         IN /\ m_showSourceCycle
            /\ m_showSourceTimeout > 0
            /\ m_showStreamId = (cycleTicks \div period) % m_batchSize
            /\ m_showSourceCounter = period - (cycleTicks % period)
            /\ m_showSourceTimerId \in showSourceTimers
    /\ (m_showSourceCycle /\ lastCall.op = "Tick") => lastCall.ret

\* The cycle has shown every slot and is back at slot 0.
C3_Witness ==
    /\ cycleTicks = 0
    /\ lastCall = Call("Tick", "cycle", TRUE)
    /\ m_showStreamId = 0
    /\ m_batchSize > 1

\* C4: CycleAllSources(0) returns false, starts no timer and leaves the
\* shown slot, the timeout, the counter, the cycle flag, the timer handle
\* and the registered timers as they were.
C4_CycleZeroRejected ==
    [][CycleAllSources(0)
        => /\ ~lastCall'.ret
           /\ UNCHANGED <<showSourceState, showSourceTimers>>]_vars

\* CycleAllSources(0) was refused while a show-source timer was running.
C4_Witness ==
    /\ lastCall = Call("CycleAllSources", "zero", FALSE)
    /\ m_showSourceTimerId # 0
    /\ m_showStreamId >= 0

\* C5: at most one show-source timeout source is registered with the main
\* loop in every reachable state (of a Tiler whose slots are all active).
C5_AtMostOneTimer == AllSlotsActive => Cardinality(showSourceTimers) <= 1

\* C6: when ShowAllSources() returns the Tiler (every slot active) is idle:
\* all sources shown, cycling off, no timer handle and no show-source
\* timeout source left registered with the main loop.
C6_ShowAllSourcesIdle ==
    (AllSlotsActive /\ lastCall.op = "ShowAllSources")
        => /\ m_showStreamId = -1
           /\ ~m_showSourceCycle
           /\ m_showSourceTimerId = 0
           /\ showSourceTimers = {}

\* C7: a SetShowSource call refused because a timer runs for another slot
\* and the call has no precedence changes none of the shown slot, the
\* timeout, the counter, the cycle flag and the timer handle (every slot
\* of the Tiler being active).
C7_RejectedCallMutatesNothing ==
    [][\A s \in StreamIds, t \in Timeouts :
        ( /\ SetShowSource(s, t, FALSE)
          /\ AllSlotsActive
          /\ s >= 0 /\ s # m_showStreamId /\ m_showSourceTimerId # 0 )
        => UNCHANGED <<showSourceState, showSourceTimers>>]_vars


\* ========================================================== Player claims

\* C8: Stop() on a Player that is not linked returns false and has no side
\* effect: no end-of-stream is sent, nothing is scheduled on the loop, the
\* caller does not block, links and pipeline state stay as they were and no
\* termination listener is invoked.
C8_StopNotLinkedNoEffect ==
    [][(StopBegin /\ ~m_playerIsLinked)
        => /\ playerCall' = Call("Stop", "notLinked", FALSE)
           /\ callerPc' = "idle"
           /\ UNCHANGED <<linkVars, currentState, eosPending, loopCallbacks,
                          invoked, mainLoopRunning>>]_vars

\* Stop() was refused on an unlinked Player while the main loop was running.
C8_Witness ==
    /\ playerCall = Call("Stop", "notLinked", FALSE)
    /\ ~m_playerIsLinked
    /\ mainLoopRunning
    /\ m_terminationEventListeners # {}

\* Stop(), entered on a linked Player, returns to its caller in this step.
StopReturns ==
    \/ CallerReturn /\ callerPc = "stopWoken"
    \/ StopMarshal /\ ~mainLoopRunning

\* C9: when a Stop() entered on a linked Player (here: right after a Play()
\* that succeeded) returns, the Player is not linked and every registered
\* termination listener has been invoked exactly once since the Stop() was
\* entered, with the loop running (marshaled) or not (in line), whichever
\* listeners raise.
C9_StopUnlinksListenersOnce ==
    [][(StopReturns /\ playerCall = Call("Play", "linked", TRUE))
        => /\ ~m_playerIsLinked'
           /\ \A l \in m_terminationEventListeners : invoked'[l] = 1]_vars

\* C10: while the loop runs, Pause/Stop change no state in the caller's
\* thread and the blocked caller returns only after the callback it
\* scheduled itself has run; while no loop runs, the transition is made in
\* the caller's thread and the caller does not block.
C10_MarshalingByOwnCallback ==
    [][ /\ CallerReturn => ownCallbackRan
        /\ ((StopMarshal \/ (Pause /\ currentState = "PLAYING"))
               /\ mainLoopRunning)
            => /\ callerPc' \in {"stopWait", "pauseWait"}
               /\ UNCHANGED <<linkVars, currentState, invoked>>
        /\ ((StopMarshal \/ (Pause /\ currentState = "PLAYING"))
               /\ ~mainLoopRunning)
            => callerPc' = "idle"
      ]_vars

\* C11: a Pause() or Stop() that blocks in g_cond_wait eventually returns,
\* provided the main loop dispatches every callback scheduled on it: the
\* caller holds m_asyncCommMutex from before g_timeout_add until it waits,
\* so no handler signals before the caller waits.
C11_BlockedCallerReturns ==
    (callerPc \in {"stopWait", "pauseWait"}) ~> (callerPc = "idle")

\* A marshaled Pause() or Stop() has returned after its own callback ran.
C11_Witness ==
    /\ callerPc = "idle"
    /\ playerCall.op \in {"Pause", "Stop"}
    /\ playerCall.path = "marshaled"
    /\ ownCallbackRan

\* ========================================================= linking claims

\* Play() reaches PlayerBintr::LinkAll(): the pipeline is in state NULL.
PlayCallsLinkAll ==
    /\ currentState = "NULL"
    /\ \E srcOk, sinkOk, linkOk, pausedOk, playingOk \in BOOLEAN :
          Play(srcOk, sinkOk, linkOk, pausedOk, playingOk)

\* C12: LinkAll() on a linked Tiler or Player returns false and leaves the
\* links and isLinked as they were; UnlinkAll() on a Tiler or Player that
\* is not linked unlinks no child and leaves isLinked false.
C12_LinkAllUnlinkAllRefused ==
    [][ /\ (TilerLinkAll /\ m_isLinked)
            => /\ lastCall' = Call("LinkAll", "linked", FALSE)
               /\ UNCHANGED <<m_isLinked, queueLinkedToTiler>>
        /\ (TilerUnlinkAll /\ ~m_isLinked)
            => UNCHANGED <<m_isLinked, queueLinkedToTiler>>
        /\ (PlayCallsLinkAll /\ m_playerIsLinked)
            => /\ playerCall' = Call("Play", "linkFailed", FALSE)
               /\ UNCHANGED linkVars
        /\ (Dispatch /\ Head(loopCallbacks).fn = "PlayerStop"
               /\ ~m_playerIsLinked)
            => UNCHANGED linkVars
      ]_vars

\* LinkAll() was refused on a linked Tiler, after a Play() whose LinkAll()
\* was refused on a Player that was linked already.
C12_Witness ==
    /\ lastCall = Call("LinkAll", "linked", FALSE)
    /\ m_isLinked /\ queueLinkedToTiler
    /\ playerCall = Call("Play", "linkFailed", FALSE)
    /\ m_playerIsLinked

\* C13: PlayerBintr::LinkAll() on a Player that is not linked (reached by
\* Play() in state NULL) links the source, then the sink, then the source to
\* the sink; the Player is linked afterwards exactly when both children are
\* present and all three steps succeeded, and otherwise the call fails with
\* isLinked false; without both children nothing is linked.
C13_PlayerLinkAll ==
    [][\A srcOk, sinkOk, linkOk, pausedOk, playingOk \in BOOLEAN :
        ( /\ Play(srcOk, sinkOk, linkOk, pausedOk, playingOk)
          /\ currentState = "NULL"
          /\ ~m_playerIsLinked )
        => /\ m_playerIsLinked' =
                ( /\ m_pSource /\ m_pSink
                  /\ ~sourceIsLinked /\ srcOk
                  /\ ~sinkIsLinked /\ sinkOk
                  /\ ~sourceLinkedToSink /\ linkOk )
           /\ ~m_playerIsLinked'
                => playerCall' = Call("Play", "linkFailed", FALSE)
           /\ (sinkIsLinked' /\ ~sinkIsLinked) => sourceIsLinked'
           /\ (sourceLinkedToSink' /\ ~sourceLinkedToSink)
                => sourceIsLinked' /\ sinkIsLinked'
           /\ ~(m_pSource /\ m_pSink) => UNCHANGED linkVars
      ]_vars

\* A LinkAll() failed at its last step and left the Player not linked.
C13_Witness ==
    /\ playerCall = Call("Play", "linkFailed", FALSE)
    /\ ~m_playerIsLinked
    /\ sourceIsLinked /\ sinkIsLinked /\ ~sourceLinkedToSink

\* ============================================================ Bintr claims

\* C14: while a container node (plain Bintr, Tiler or Player) is linked,
\* SetGpuId and SetNvbufMemType return false and neither m_gpuId nor
\* m_nvbufMemType changes.
C14_NoGpuOrMemTypeChangeWhileLinked ==
    [][bintrIsLinked
        => /\ UNCHANGED <<m_gpuId, m_nvbufMemType>>
           /\ (\E gpuId \in GpuIds : BintrSetGpuId(gpuId))
                => bintrCall' = Call("SetGpuId", "refused", FALSE)
           /\ (\E nvbufMemType \in NvbufMemTypes :
                   BintrSetNvbufMemType(nvbufMemType))
                => bintrCall' = Call("SetNvbufMemType", "refused", FALSE)
      ]_vars

\* ================================================ Source Aggregator claims

\* The pad ids marked used.
UsedRequestPadIds == {id \in RequestPadIds : m_usedRequestPadIds[id]}

NotFoundResults ==
    {"DSL_RESULT_PIPELINE_NAME_NOT_FOUND",
     "DSL_RESULT_COMPONENT_NAME_NOT_FOUND",
     "DSL_RESULT_PPH_NAME_NOT_FOUND"}

\* The service can return something else than a not-found result, or
\* change one of the three maps.
GoesOn(service) ==
    ENABLED (/\ service
             /\ \/ servicesCall'.ret \notin NotFoundResults
                \/ m_pipelines' # m_pipelines
                \/ m_components' # m_components
                \/ m_padProbeHandlers' # m_padProbeHandlers)

SweepCount(listener) ==
    Cardinality({i \in 1..Len(sweep.calls) : sweep.calls[i] = listener})

TilerLiveInit == Init /\ AllSlotsActive /\ m_showSourceListeners # {}

ListenedSpec == TilerLiveInit /\ [][Next]_vars

TilerLiveSpec == ListenedSpec /\ WF_vars(NotifyClientsTimerHandler)

\* The sweep that ran last called every registered listener with the slot
\* shown now.
ListenersNotified ==
    /\ lastCall.op = "NotifyClients"
    /\ \A listener \in m_showSourceListeners : SweepCount(listener) = 1
    /\ sweep.streamId = m_showStreamId

\* C23: a step that changes the shown slot while listeners are registered
\* calls no listener itself and leaves a notification callback scheduled on
\* the main loop; and a scheduled notification leads to a sweep that calls
\* every registered listener with the slot shown at the time of the sweep
\* (the main loop running the callbacks scheduled on it).
C23_SlotChangeNotified ==
    /\ [][(m_showStreamId' # m_showStreamId /\ m_showSourceListeners # {})
            => (m_notifyClientsTimerId' # 0 /\ sweep' = NoSweep)]_vars
    /\ (m_notifyClientsTimerId # 0) ~> ListenersNotified

\* A cycling advance changed the slot to 1 and the sweep that followed
\* delivered slot 1 to both listeners.
C23_Witness ==
    /\ ListenersNotified
    /\ sweep.calls = <<1, 2>>
    /\ m_showSourceCycle
    /\ sweep.streamId = 1

\* C24: a CycleAllSources(t) call with t > 0 leaves the Tiler cycling and
\* showing slot 0, with timeout t, counter 10*t, and exactly one
\* show-source timeout source registered with the main loop, the one the
\* timer handle names.
C24_CycleAllSourcesPostState ==
    [][\A t \in Timeouts :
        (CycleAllSources(t) /\ t > 0)
        => /\ lastCall'.ret
           /\ m_showSourceCycle'
           /\ m_showStreamId' = 0
           /\ m_showSourceTimeout' = t
           /\ m_showSourceCounter' = TicksPerSecond * t
           /\ m_showSourceTimerId' # 0
           /\ showSourceTimers' = {m_showSourceTimerId'}]_vars

\* C25: SetShowSource(s, t, p) for the slot s >= 0 that is shown returns
\* true whatever p is, keeps the shown slot, sets the timeout to t and the
\* counter to 10*t, registers a timer only when the timer handle is clear
\* (a running timer is kept as it is) and schedules no notification.
C25_SameSourceExtends ==
    [][\A s \in StreamIds, t \in Timeouts, p \in BOOLEAN :
        (SetShowSource(s, t, p) /\ s >= 0 /\ s = m_showStreamId)
        => /\ lastCall'.ret
           /\ m_showStreamId' = m_showStreamId
           /\ m_showSourceTimeout' = t
           /\ m_showSourceCounter' = TicksPerSecond * t
           /\ m_showSourceTimerId # 0
                => UNCHANGED <<m_showSourceTimerId, showSourceTimers>>
           /\ showSourceTimers' \subseteq
                showSourceTimers \cup {m_showSourceTimerId'}
           /\ m_notifyClientsTimerId' = m_notifyClientsTimerId]_vars

\* The slot shown by a running timer was asked for again, on a linked Tiler
\* with listeners and no notification pending: the counter is back at 10*t.
C25_Witness ==
    /\ lastCall = Call("SetShowSource", "same", TRUE)
    /\ m_isLinked
    /\ m_showSourceTimerId # 0
    /\ m_showSourceCounter = TicksPerSecond * m_showSourceTimeout
    /\ m_showSourceListeners # {}
    /\ m_notifyClientsTimerId = 0

\* C26: a show-source timer tick of a Tiler that is not linked changes none
\* of the counter, the shown slot, the cycle flag, the timeout and the timer
\* handle, and returns true, so that the timeout source stays registered
\* and the countdown goes on from the same counter once the Tiler is linked.
C26_UnlinkedTickIsNoOp ==
    [][\A id \in 1..MaxTimers :
        (HandleShowSourceTimer(id) /\ ~m_isLinked)
        => /\ UNCHANGED <<showSourceState, showSourceTimers>>
           /\ lastCall'.ret
           /\ m_notifyClientsTimerId' = m_notifyClientsTimerId]_vars

\* A tick found the Tiler unlinked in the middle of a countdown.
C26_Witness ==
    /\ lastCall = Call("Tick", "unlinked", TRUE)
    /\ m_showSourceTimerId \in showSourceTimers
    /\ m_showSourceCounter > 0
    /\ m_showSourceCounter < TicksPerSecond * m_showSourceTimeout
    /\ m_showStreamId >= 0

\* C27: SetShowSource for a negative slot id, or for a slot that has no
\* active source, returns false and changes none of the shown slot, the
\* timeout, the counter, the cycle flag, the timer handle and the
\* registered timers.
C27_InvalidSlotMutatesNothing ==
    [][\A s \in StreamIds, t \in Timeouts, p \in BOOLEAN :
        (SetShowSource(s, t, p) /\ (s < 0 \/ ~IsActiveSource(s)))
        => /\ ~lastCall'.ret
           /\ UNCHANGED <<showSourceState, showSourceTimers>>]_vars


\* ================================================== Player claims, part 2

\* The names of the steps the last operation took, in order.
StepNames(steps) == [i \in 1..Len(steps) |-> steps[i].do]

\* C28: Play() on a Player whose pipeline is in state NULL calls LinkAll,
\* then asks for PAUSED, then for PLAYING, in that order, each step only
\* after the one before it succeeded: the change to PAUSED begins on a
\* linked Player, the change to PLAYING begins in PAUSED, and when LinkAll
\* fails no change of state is asked for and the state stays NULL.  Play()
\* in any other state asks for PLAYING only and leaves the links alone.
C28_PlayOrder ==
    [][\A srcOk, sinkOk, linkOk, pausedOk, playingOk \in BOOLEAN :
        Play(srcOk, sinkOk, linkOk, pausedOk, playingOk)
        => LET names == StepNames(playerSteps')
               linked == PlayerLinkAllRet(srcOk, sinkOk, linkOk)
           IN /\ (currentState = "NULL" /\ linked /\ pausedOk)
                   => /\ names = <<"LinkAll", "SetState PAUSED",
                                   "SetState PLAYING">>
                      /\ playerSteps'[2].linked
                      /\ playerSteps'[3].state = "PAUSED"
                      /\ m_playerIsLinked'
              /\ (currentState = "NULL" /\ linked /\ ~pausedOk)
                   => names = <<"LinkAll", "SetState PAUSED">>
              /\ (currentState = "NULL" /\ ~linked)
                   => /\ names = <<"LinkAll">>
                      /\ currentState' = "NULL"
                      /\ ~playerCall'.ret
              /\ currentState # "NULL"
                   => /\ names = <<"SetState PLAYING">>
                      /\ UNCHANGED linkVars
      ]_vars

\* Play() on a stopped Player linked it and took it to PLAYING.
C28_Witness ==
    /\ playerCall = Call("Play", "linked", TRUE)
    /\ Len(playerSteps) = 3
    /\ playerSteps[1].state = "NULL"
    /\ currentState = "PLAYING"
    /\ m_playerIsLinked

\* The steps of a HandleStop() that called listeners.
StopSweepRan ==
    \E i \in 1..Len(playerSteps) : playerSteps[i].do = "Listeners"

C30_TargetSlotInBatch ==
    \/ m_showStreamId = -1
    \/ (0 <= m_showStreamId /\ m_showStreamId < m_batchSize)

\* The pipelines that hold the component as a child.
Owners(component) ==
    {name \in Pipelines : component \in m_pipelines[name].children}

\* Every component is a child of at most one pipeline; an add of a
\* component in use to one of the named pipelines returns component-in-use,
\* a remove of a component from one of them that does not hold it returns
\* an error, and both leave every pipeline as it was.
OwnershipKept(names) ==
    /\ \A component \in ComponentNames : Cardinality(Owners(component)) <= 1
    /\ \A name \in names, component \in ComponentNames,
          engine \in EngineOutcomes :
        /\ Owners(component) # {}
            => ~ENABLED
                (/\ PipelineComponentAdd(name, component, engine)
                 /\ \/ servicesCall'.ret # "DSL_RESULT_COMPONENT_IN_USE"
                    \/ m_pipelines' # m_pipelines)
        /\ name \notin Owners(component)
            => ~ENABLED
                (/\ PipelineComponentRemove(name, component, engine)
                 /\ \/ servicesCall'.ret \in {"DSL_RESULT_SUCCESS", "SIGSEGV"}
                    \/ m_pipelines' # m_pipelines)

\* The ownership rules for the names that hold a pipeline.
OwnershipOfLivePipelines == OwnershipKept(Pipelines)

RegistrySetShowSource ==
    /\ notifyIt.pc = "idle"
    /\ \E streamId \in StreamIds :
          SetShowSource(streamId, MaxTimeout, TRUE)
    /\ UNCHANGED <<queryVars, sweep, notifyIt, nonTilerVars>>
RegistryAddListener ==
    /\ \E listener \in 1..MaxListeners : AddShowSourceListener(listener)
    /\ RunsBesideSweep
    /\ UNCHANGED <<queryVars, sweep, nonTilerVars>>
RegistryRemoveListener ==
    /\ \E listener \in 1..MaxListeners : RemoveShowSourceListener(listener)
    /\ RunsBesideSweep
    /\ UNCHANGED <<queryVars, sweep, nonTilerVars>>
RegistrySweepBegins ==
    NotifyClientsBegin /\ UNCHANGED <<queryVars, sweep, nonTilerVars>>
RegistrySweepCalls ==
    NotifyClientsCallNext /\ UNCHANGED <<queryVars, sweep, nonTilerVars>>
RegistrySweepEnds ==
    NotifyClientsEnd /\ UNCHANGED <<queryVars, sweep, nonTilerVars>>

RegistryNext ==
    \/ RegistrySetShowSource
    \/ RegistryAddListener
    \/ RegistryRemoveListener
    \/ RegistrySweepBegins
    \/ RegistrySweepCalls
    \/ RegistrySweepEnds

RegistryInit == Init /\ AllSlotsActive

RegistrySpec == RegistryInit /\ [][RegistryNext]_vars

\* C32: no step taken while the notification sweep is inside its loop over
\* the show-source listeners changes the registry of listeners: a call of
\* AddShowSourceListener or RemoveShowSourceListener takes effect before
\* the sweep takes the Tiler mutex or after it has released it.
C32_RegistryStableInSweep ==
    [][notifyIt.pc = "iterating" => UNCHANGED m_showSourceListeners]_vars

\* ================================================= Player claims, part 3

\* An end-of-stream or a window-delete event can reach a linked Player
\* whose main loop runs.
SignalDeliverable ==
    /\ mainLoopRunning
    /\ m_playerIsLinked
    /\ eosPending \/ currentState = "PLAYING"
    /\ Len(loopCallbacks) < MaxCallbacks

\* What HandleTermination does for its caller: it schedules PlayerStop on
\* the main loop and returns, with the Player as it found it.
TerminationScheduled ==
    /\ loopCallbacks' = Append(loopCallbacks, Callback("PlayerStop", FALSE))
    /\ UNCHANGED <<linkVars, currentState, callerPc, invoked>>

\* A stop is scheduled on the running main loop for a linked Player.
StopPending ==
    /\ mainLoopRunning
    /\ m_playerIsLinked
    /\ \E i \in 1..Len(loopCallbacks) : loopCallbacks[i].fn = "PlayerStop"

\* The main loop has just run the stop transition: the Player is unlinked
\* and every listener was called.
StopRanOnLoop ==
    /\ mainLoopRunning
    /\ playerSteps # <<>>
    /\ playerSteps[1].do = "SetState NULL"
    /\ ~m_playerIsLinked
    /\ \A l \in m_terminationEventListeners : invoked[l] >= 1

TickDecrements == m_isLinked /\ showSourceTimers # {}

\* C34: in every reachable state in which a show-source tick of a linked
\* Tiler can fire, the unsigned counter of remaining ticks is at least 1, so
\* the decrement of the tick never takes it from 0 to 2^32 - 1.
C34_CounterNeverWraps == TickDecrements => m_showSourceCounter # 0

\* A linked Tiler that cycles through a batch in which slot 0 holds a
\* source and other slots may be empty, on a main loop that calls the
\* show-source timer for as long as its source is registered.
CycleInit ==
    /\ ServicesInit
    /\ TilerConstructed
    /\ m_batchSize = MaxCycleBatch
    /\ activeSources \in SUBSET (0..(m_batchSize - 1))
    /\ 0 \in activeSources
    /\ m_showSourceListeners = {}
    /\ PlayerInit
    /\ ~mainLoopRunning
    /\ m_terminationEventListeners = {}
    /\ m_pSource /\ m_pSink
    /\ BintrIdle
    /\ SourcesIdle

\* the one call that starts the cycle
CycleStarts == ~m_showSourceCycle /\ CallCycleAllSources

CycleNext ==
    \/ CallLinkAll
    \/ CycleStarts
    \/ ShowSourceTimerHandler

CycleSpec == CycleInit /\ [][CycleNext]_vars

CycleLiveSpec == CycleSpec /\ WF_vars(ShowSourceTimerHandler)

\* The same Tiler with a source in every slot of the batch.
FullCycleInit == CycleInit /\ AllSlotsActive

FullCycleLiveSpec ==
    /\ FullCycleInit
    /\ [][CycleNext]_vars
    /\ WF_vars(ShowSourceTimerHandler)

\* C35: while a linked Tiler cycles, every slot of the batch that holds an
\* active source is shown again and again, also when slots between the
\* active ones are empty.
C35_CycleShowsEveryActiveSlot ==
    \A slot \in 0..(MaxCycleBatch - 1) :
        (m_isLinked /\ m_showSourceCycle /\ slot \in activeSources)
            ~> (m_showStreamId = slot)

\* The main loop runs a PlayerStop callback in this step.
StopCallbackRuns ==
    /\ Dispatch
    /\ Head(loopCallbacks).fn = "PlayerStop"

\* C36: a stop callback that finds the Player already unlinked (an earlier
\* callback made the stop) calls no termination listener, so however many
\* stop triggers were delivered before the first callback ran, each
\* listener is called once for the stop.
C36_UnlinkedStopCallsNoListener ==
    [][(StopCallbackRuns /\ ~m_playerIsLinked) => UNCHANGED invoked]_vars

\* C37: whenever no Play(), Pause() or Stop() is under way, the Player is
\* linked exactly when its pipeline is in a state other than NULL; and a
\* Play() that returned false from state NULL, because LinkAll() or the
\* change to PAUSED failed, has left the Player not linked.
C37_LinkedIffNotStopped ==
    callerPc = "idle"
        => /\ m_playerIsLinked <=> currentState # "NULL"
           /\ (/\ playerCall.op = "Play"
               /\ playerCall.path \in {"linkFailed", "pauseFailed"})
                => ~m_playerIsLinked

\* C38: after a Play() that failed in LinkAll(), neither the Source nor the
\* Sink is linked and the Source is not linked to the Sink, whichever of
\* the three steps of LinkAll() failed.
C38_FailedLinkAllLeavesNoLink ==
    playerCall = Call("Play", "linkFailed", FALSE)
        => ~sourceIsLinked /\ ~sinkIsLinked /\ ~sourceLinkedToSink

\* =================================================== service claims, part 2

\* C39: after every call PipelineListSize() is the number of pipelines that
\* were created and not deleted, that is, of names that hold a pipeline;
\* and a PipelineNew that does not return success (duplicate name, or an
\* exception of the constructor) can only leave the registry as it was,
\* with no entry added and the pipeline of that name untouched.
C39_ListSizeCountsPipelines ==
    [][/\ PipelineListSize' = Cardinality(Pipelines')
       /\ \A name \in PipelineNames, engine \in EngineOutcomes :
            (/\ PipelineNew(name, engine)
             /\ servicesCall'.ret # "DSL_RESULT_SUCCESS")
                => UNCHANGED m_pipelines]_vars

\* ============================================ Player stop with its mutexes
\* Stop() called through a service and HandleStop() on the main loop,
\* followed lock by lock.  Thread 1 is the API caller, thread 2 the thread
\* of the main loop; m_servicesMutex holds the thread that owns it.

\* The components and maps the stop of the Player does not touch.
stopIdleVars == <<tilerVars, tilerClientVars, bintrVars, sourcesVars,
                  m_pipelines, m_components, m_padProbeHandlers,
                  threadPc, threadCall, servicesCall>>

\* The loop thread is inside HandleStop() and holds m_asyncCommMutex.
LoopHoldsAsyncCommMutex ==
    loopPc \in {"listeners", "service", "listenersDone"}

\* The play service, which returns before it releases the API mutex.
ServicePlay ==
    /\ m_servicesMutex = 0
    /\ CallPlay

\* The stop service: LOCK_MUTEX_FOR_CURRENT_SCOPE(&m_servicesMutex), then
\* Stop() up to sleep(1).  The mutex is released with the scope when Stop()
\* returns false.
ServiceStopEnter ==
    /\ m_servicesMutex = 0
    /\ StopBegin
    /\ m_servicesMutex' = IF StopRefused THEN 0 ELSE 1
    /\ UNCHANGED <<loopPc, stopIdleVars>>

\* Stop(), lines 217-228, inside the service: with the loop running the
\* caller locks m_asyncCommMutex, schedules PlayerStop and waits, still
\* owning m_servicesMutex; without a loop it stops in line and returns.
ServiceStopMarshal ==
    /\ mainLoopRunning => ~LoopHoldsAsyncCommMutex
    /\ StopMarshal
    /\ m_servicesMutex' = IF mainLoopRunning THEN m_servicesMutex ELSE 0
    /\ UNCHANGED <<loopPc, stopIdleVars>>

\* g_cond_wait returns once the caller was signalled and m_asyncCommMutex
\* is free; Stop() returns and the service releases m_servicesMutex.
ServiceStopReturn ==
    /\ ~LoopHoldsAsyncCommMutex
    /\ CallerReturn
    /\ playerSteps' = <<>>
    /\ m_servicesMutex' = 0
    /\ UNCHANGED <<loopPc, stopIdleVars>>

\* The loop runs the oldest callback.  HandleStop() locks m_asyncCommMutex
\* and goes as far as g_cond_signal (lines 234-245); its listener loop
\* follows, with the mutex held.
LoopDispatch ==
    /\ loopPc = "idle"
    /\ Dispatch
    /\ loopPc' = IF Head(loopCallbacks).fn = "PlayerStop"
                 THEN "listeners" ELSE "idle"
    /\ UNCHANGED <<m_servicesMutex, stopIdleVars>>

\* lines 246-256: a termination listener calls a service of the API, which
\* starts with LOCK_MUTEX_FOR_CURRENT_SCOPE(&m_servicesMutex)
ListenerCallsService ==
    /\ loopPc = "listeners"
    /\ m_terminationEventListeners # {}
    /\ loopPc' = "service"
    /\ UNCHANGED <<playerVars, playerSteps, m_servicesMutex, stopIdleVars>>

\* The service the listener called gets the mutex, runs and returns.
ListenerServiceReturns ==
    /\ loopPc = "service"
    /\ m_servicesMutex = 0
    /\ loopPc' = "listenersDone"
    /\ UNCHANGED <<playerVars, playerSteps, m_servicesMutex, stopIdleVars>>

\* line 257: HandleStop() returns and releases m_asyncCommMutex
HandleStopReturns ==
    /\ loopPc \in {"listeners", "listenersDone"}
    /\ loopPc' = "idle"
    /\ UNCHANGED <<playerVars, playerSteps, m_servicesMutex, stopIdleVars>>

\* Code that runs on the loop thread (a callback of the application) calls
\* the stop service of a linked Player: Stop() finds the loop running,
\* schedules PlayerStop on it and waits in g_cond_wait on the loop thread.
LoopCallsStop ==
    /\ loopPc = "idle"
    /\ mainLoopRunning
    /\ callerPc = "idle"
    /\ m_servicesMutex = 0
    /\ ~StopRefused
    /\ Len(loopCallbacks) < MaxCallbacks
    /\ m_servicesMutex' = 2
    /\ eosPending' = TRUE
    /\ loopCallbacks' = Append(loopCallbacks, Callback("PlayerStop", TRUE))
    /\ loopPc' = "stopWait"
    /\ playerSteps' = <<Step("SendEos", m_playerIsLinked, currentState)>>
    /\ UNCHANGED <<linkVars, currentState, mainLoopRunning, callerPc,
                   m_terminationEventListeners, throwingListeners,
                   m_pSource, m_pSink, invoked, ownCallbackRan, playerCall,
                   stopIdleVars>>

\* The bus watcher of the loop thread delivers an end-of-stream or a
\* window-delete event between two callbacks.
LoopTerminate ==
    /\ loopPc = "idle"
    /\ PlayerTerminate

MarshalNext ==
    \/ ServicePlay
    \/ LoopTerminate
    \/ CallMainLoopRun
    \/ ServiceStopEnter
    \/ ServiceStopMarshal
    \/ ServiceStopReturn
    \/ LoopDispatch
    \/ ListenerCallsService
    \/ ListenerServiceReturns
    \/ HandleStopReturns
    \/ LoopCallsStop

MarshalSpec == PlayerSpecInit /\ [][MarshalNext]_vars

\* The main loop runs the callbacks scheduled on it, a thread that waits
\* for a mutex gets it once it is free, and a handler returns.
MarshalLiveSpec ==
    /\ MarshalSpec
    /\ WF_vars(LoopDispatch)
    /\ WF_vars(ListenerServiceReturns)
    /\ WF_vars(HandleStopReturns)
    /\ WF_vars(ServiceStopReturn)

\* C40: a thread that waits in a marshaled Stop(), owning the API mutex of
\* the service it came through, is released in the end: the stop callback
\* of the loop runs to its return, also when one of its termination
\* listeners calls a service of the API, and also when the Stop() was
\* called by code that runs on the loop thread.
C40_MarshaledStopReturns ==
    /\ (callerPc = "stopWait") ~> (callerPc = "idle")
    /\ (loopPc = "stopWait") ~> (loopPc = "idle")

====
